---- MODULE Spec2Model ----
(***************************************************************************)
(* Model of the Alaska aviation incidents viewer (src/app.js).             *)
(*                                                                         *)
(* A JavaScript string is modelled as a sequence of one-character strings, *)
(* so that tokenizing, trimming, quoting and pattern matching are computed *)
(* character by character as the code computes them.  An instant is kept   *)
(* in whole minutes since 1970-01-01T00:00Z (every instant the code builds *)
(* has zero seconds and milliseconds).                                     *)
(***************************************************************************)
EXTENDS Integers, Sequences, FiniteSets, TLC

VARIABLES
    \* --- parseCsv run (src/app.js 23-65) ---
    text,       \* the input text
    src,        \* the string that was escaped to give text (kind = "escaped")
    kind,       \* "raw" | "escaped" | "none"
    i,          \* loop index, 0-based as in the code
    cur,        \* current cell
    row,        \* current row
    rows,       \* rows emitted so far
    inQuotes,   \* quote flag
    ppc,        \* "loop" | "done"
    \* --- one raw record through the assembler and the date helpers ---
    rec,        \* the raw record
    browserTZ,  \* the time zone of the viewing browser
    inc,        \* toIncident(rec), once assembled
    apc,        \* "input" | "assembled"
    score,      \* bestDateScore(rec), once computed
    evDate,     \* getEventDate(toIncident(rec)), once computed
    \* --- the page (src/app.js 1-600) ---
    pc,         \* init(): "fetching" | "done"
    csvText,    \* the body of ./data/incidents.csv
    INCIDENTS,  \* line 19
    FILTERED,   \* line 20
    status,     \* els.status.textContent
    rowCount,   \* els.rowCount.textContent: <<>> until set, then <<n>>
    results,    \* els.results: the cards appended by render()
    ctl,        \* the value of each control
    opts,       \* the option values of each dropdown
    hooked,     \* the listeners of lines 531-534 are attached
    exported,   \* the file the last click on the download button produced
    \* --- the render timer (src/app.js 912-917) ---
    timer,      \* the handle setTimeout returned last, 0 for null
    pending,    \* the timers not yet run: handle :> milliseconds left
    renders     \* how often render() has run since the last event

csvVars == <<text, src, kind, i, cur, row, rows, inQuotes, ppc>>
asmVars == <<rec, browserTZ, inc, apc>>
dateVars == <<score, evDate>>
appVars ==
    <<pc, csvText, INCIDENTS, FILTERED, status, rowCount, results, ctl, opts,
      hooked>>
outVars == <<exported, timer, pending, renders>>
vars == <<csvVars, asmVars, dateVars, appVars, outVars>>

\* what a step of one part leaves alone
notCsv == <<asmVars, dateVars, appVars, outVars>>
notAsm == <<csvVars, dateVars, appVars, outVars>>
notDate == <<csvVars, inc, apc, appVars, outVars>>
notApp == <<csvVars, rec, inc, apc, dateVars, outVars>>

(***************************************************************************)
(* Characters                                                              *)
(***************************************************************************)
QUOTE == "\""
COMMA == ","
LF == "\n"
CR == "\r"
SPACE == " "
TAB == "\t"
\* text[i + 1] past the end of the string
Undefined == "undefined"

\* String.prototype.trim strips these (the ones the model's inputs can hold)
IsSpace(c) == c \in {SPACE, TAB, LF, CR}

\* F(v) with v computed once, before F is applied (JavaScript evaluates an
\* argument once; TLC otherwise substitutes the expression for the parameter)
Eval(v, F(_)) == CHOOSE y \in {F(x) : x \in {v}} : TRUE

RECURSIVE TrimLeft(_)
TrimLeft(s) ==
    IF Len(s) > 0 /\ IsSpace(Head(s)) THEN TrimLeft(Tail(s)) ELSE s

RECURSIVE TrimRight(_)
TrimRight(s) ==
    IF Len(s) > 0 /\ IsSpace(s[Len(s)])
    THEN TrimRight(SubSeq(s, 1, Len(s) - 1))
    ELSE s

Trim(s) == Eval(s, LAMBDA v : TrimRight(TrimLeft(v)))

\* norm(s): (s ?? "").toString().trim(); an absent value is modelled by <<>>
norm(s) == Trim(s)

Count(s, c) == Cardinality({k \in 1..Len(s) : s[k] = c})

Contains(s, c) == \E k \in 1..Len(s) : s[k] = c

RECURSIVE Flatten(_)
Flatten(ss) == IF ss = <<>> THEN <<>> ELSE Head(ss) \o Flatten(Tail(ss))

(***************************************************************************)
(* parseCsv, src/app.js lines 23-65.  The parser state is the record       *)
(* [i, cur, row, rows, inQuotes]; one operator per branch of the loop.     *)
(***************************************************************************)
CharAt(t, k) == IF k + 1 <= Len(t) THEN t[k + 1] ELSE Undefined

PState(pi, pcur, prow, prows, pq) ==
    [i |-> pi, cur |-> pcur, row |-> prow, rows |-> prows, inQuotes |-> pq]

PStart == PState(0, <<>>, <<>>, <<>>, FALSE)

IsEscapedQuote(t, s) ==
    CharAt(t, s.i) = QUOTE /\ s.inQuotes /\ CharAt(t, s.i + 1) = QUOTE

IsToggleQuote(t, s) == ~IsEscapedQuote(t, s) /\ CharAt(t, s.i) = QUOTE

IsCommaMutant(t, s) == CharAt(t, s.i) = COMMA
IsComma(t, s) == CharAt(t, s.i) = COMMA /\ ~s.inQuotes

IsNewline(t, s) == CharAt(t, s.i) \in {LF, CR} /\ ~s.inQuotes

IsOrdinary(t, s) ==
    ~(CharAt(t, s.i) = QUOTE) /\ ~IsComma(t, s) /\ ~IsNewline(t, s)

\* lines 33-37
EscapedQuote(t, s) == [s EXCEPT !.cur = Append(@, QUOTE), !.i = @ + 2]

\* lines 38-41
ToggleQuote(t, s) == [s EXCEPT !.inQuotes = ~@, !.i = @ + 1]

\* lines 42-46
CommaStep(t, s) == [s EXCEPT !.row = Append(@, s.cur), !.cur = <<>>, !.i = @ + 1]

\* line 51: the row is kept unless it is one cell that trims to nothing
KeepRow(r) == Len(r) > 1 \/ (Len(r) = 1 /\ Trim(r[1]) # <<>>)

\* lines 47-54
NewlineStep(t, s) ==
    LET skip == IF CharAt(t, s.i) = CR /\ CharAt(t, s.i + 1) = LF THEN 2 ELSE 1
        r == Append(s.row, s.cur)
    IN  [s EXCEPT !.i = @ + skip,
                  !.cur = <<>>,
                  !.rows = IF KeepRow(r) THEN Append(@, r) ELSE @,
                  !.row = <<>>]

\* line 55
OrdinaryStep(t, s) == [s EXCEPT !.cur = Append(@, CharAt(t, s.i)), !.i = @ + 1]

\* one iteration of the for loop, lines 29-56
PStep(t, s) ==
    IF IsEscapedQuote(t, s) THEN EscapedQuote(t, s)
    ELSE IF CharAt(t, s.i) = QUOTE THEN ToggleQuote(t, s)
    ELSE IF IsComma(t, s) THEN CommaStep(t, s)
    ELSE IF IsNewline(t, s) THEN NewlineStep(t, s)
    ELSE OrdinaryStep(t, s)

\* lines 58-62
PFlushMutant(s) ==
    IF Len(s.row) > 0
    THEN Append(s.rows, Append(s.row, s.cur))
    ELSE s.rows
PFlush(s) ==
    IF Len(s.cur) > 0 \/ Len(s.row) > 0
    THEN Append(s.rows, Append(s.row, s.cur))
    ELSE s.rows

\* the loop of lines 29-56, at most n more iterations of it (an iteration
\* consumes at least one character, so Len(t) iterations reach the end)
RECURSIVE PRun(_, _, _)
PRun(t, s, n) ==
    IF n = 0 \/ s.i >= Len(t) THEN s
    ELSE IF n = 1 THEN PStep(t, s)
    ELSE Eval(PRun(t, s, n \div 2), LAMBDA m : PRun(t, m, n - (n \div 2)))

\* parseCsv(text)
parseCsv(t) == Eval(PRun(t, PStart, Len(t)), LAMBDA s : PFlush(s))

(***************************************************************************)
(* parseCsv of the variant at src/app.js lines 958-1008: the line endings  *)
(* of the whole text are rewritten first, and the rows with no text in any *)
(* cell are dropped at the end.                                            *)
(***************************************************************************)
parseCsv_958(text0) ==
    LET \* line 965: replace(/\r\n/g, "\n").replace(/\r/g, "\n")
        RECURSIVE Normalized(_)
        Normalized(t) ==
            IF t = <<>> THEN <<>>
            ELSE IF Head(t) = CR /\ Len(t) > 1 /\ t[2] = LF
            THEN <<LF>> \o Normalized(SubSeq(t, 3, Len(t)))
            ELSE IF Head(t) = CR THEN <<LF>> \o Normalized(Tail(t))
            ELSE <<Head(t)>> \o Normalized(Tail(t))
        \* lines 968-1001: one iteration of the while loop over s
        Step(s, p) ==
            LET ch == CharAt(s, p.i)
            IN  IF p.inQuotes
                THEN IF ch = QUOTE
                     THEN IF CharAt(s, p.i + 1) = QUOTE
                          THEN [p EXCEPT !.cur = Append(@, QUOTE), !.i = @ + 2]
                          ELSE [p EXCEPT !.inQuotes = FALSE, !.i = @ + 1]
                     ELSE [p EXCEPT !.cur = Append(@, ch), !.i = @ + 1]
                ELSE IF ch = QUOTE
                THEN [p EXCEPT !.inQuotes = TRUE, !.i = @ + 1]
                ELSE IF ch = COMMA
                THEN [p EXCEPT !.row = Append(@, p.cur), !.cur = <<>>,
                               !.i = @ + 1]
                ELSE IF ch = LF
                THEN [p EXCEPT !.rows = Append(@, Append(p.row, p.cur)),
                               !.row = <<>>, !.cur = <<>>, !.i = @ + 1]
                ELSE [p EXCEPT !.cur = Append(@, ch), !.i = @ + 1]
        RECURSIVE Run(_, _, _)
        Run(s, p, n) ==
            IF n = 0 \/ p.i >= Len(s) THEN p
            ELSE Eval(Step(s, p), LAMBDA q : Run(s, q, n - 1))
        \* lines 1003-1004
        Flushed(p) == Append(p.rows, Append(p.row, p.cur))
        \* line 1006
        HasText(r) == \E k \in 1..Len(r) : norm(r[k]) # <<>>
    IN  Eval(Normalized(text0), LAMBDA s :
            Eval(Run(s, PStart, Len(s)), LAMBDA p :
                SelectSeq(Flushed(p), HasText)))

(***************************************************************************)
(* parseCsv of the variant at src/unnamed/part_001 lines 26-70: a carriage *)
(* return outside quotes is skipped.                                       *)
(***************************************************************************)
parseCsv_part001(text0) ==
    LET \* lines 32-60: one iteration of the for loop, its i++ included
        Step(t, p) ==
            LET c == CharAt(t, p.i)
            IN  IF p.inQuotes
                THEN IF c = QUOTE /\ CharAt(t, p.i + 1) = QUOTE
                     THEN [p EXCEPT !.cur = Append(@, QUOTE), !.i = @ + 2]
                     ELSE IF c = QUOTE
                     THEN [p EXCEPT !.inQuotes = FALSE, !.i = @ + 1]
                     ELSE [p EXCEPT !.cur = Append(@, c), !.i = @ + 1]
                ELSE IF c = QUOTE
                THEN [p EXCEPT !.inQuotes = TRUE, !.i = @ + 1]
                ELSE IF c = COMMA
                THEN [p EXCEPT !.row = Append(@, p.cur), !.cur = <<>>,
                               !.i = @ + 1]
                ELSE IF c = LF
                THEN [p EXCEPT
                        !.rows = IF KeepRow(Append(p.row, p.cur))
                                 THEN Append(@, Append(p.row, p.cur)) ELSE @,
                        !.row = <<>>, !.cur = <<>>, !.i = @ + 1]
                ELSE IF c = CR THEN [p EXCEPT !.i = @ + 1]
                ELSE [p EXCEPT !.cur = Append(@, c), !.i = @ + 1]
        RECURSIVE Run(_, _, _)
        Run(t, p, n) ==
            IF n = 0 \/ p.i >= Len(t) THEN p
            ELSE Eval(Step(t, p), LAMBDA q : Run(t, q, n - 1))
        \* lines 64-67
        Flushed(p) ==
            IF KeepRow(Append(p.row, p.cur))
            THEN Append(p.rows, Append(p.row, p.cur)) ELSE p.rows
    IN  Eval(Run(text0, PStart, Len(text0)), LAMBDA p : Flushed(p))

(***************************************************************************)
(* csvEscape, src/app.js lines 548-553                                     *)
(***************************************************************************)
NeedsQuoting(s) == \E k \in 1..Len(s) : s[k] \in {QUOTE, COMMA, LF, CR}

RECURSIVE DoubleQuotes(_)
DoubleQuotes(s) ==
    IF s = <<>> THEN <<>>
    ELSE (IF Head(s) = QUOTE THEN <<QUOTE, QUOTE>> ELSE <<Head(s)>>)
         \o DoubleQuotes(Tail(s))

csvEscapeMutant(s) ==
    IF NeedsQuoting(s) THEN <<QUOTE>> \o s \o <<QUOTE>> ELSE s
csvEscape(s) ==
    IF NeedsQuoting(s) THEN <<QUOTE>> \o DoubleQuotes(s) \o <<QUOTE>> ELSE s

(***************************************************************************)
(* Column names (the keys of a raw record): K.x is the name of column x.   *)
(* "Event type", "Event date", "Event time z" and "Event datetime z" hold  *)
(* spaces; c8020_9 is "8020_9" and c8020dash9 is "8020-9".                 *)
(***************************************************************************)
K ==
    [state |-> <<"s", "t", "a", "t", "e">>,
     State |-> <<"S", "t", "a", "t", "e">>,
     aircraft_primary |->
        <<"a", "i", "r", "c", "r", "a", "f", "t", "_", "p", "r", "i", "m",
          "a", "r", "y">>,
     tail_number |->
        <<"t", "a", "i", "l", "_", "n", "u", "m", "b", "e", "r">>,
     tail |-> <<"t", "a", "i", "l">>,
     n_number |-> <<"n", "_", "n", "u", "m", "b", "e", "r">>,
     aircraft_primary_model |->
        <<"a", "i", "r", "c", "r", "a", "f", "t", "_", "p", "r", "i", "m",
          "a", "r", "y", "_", "m", "o", "d", "e", "l">>,
     aircraft_primary_m |->
        <<"a", "i", "r", "c", "r", "a", "f", "t", "_", "p", "r", "i", "m",
          "a", "r", "y", "_", "m">>,
     aircraft_model |->
        <<"a", "i", "r", "c", "r", "a", "f", "t", "_", "m", "o", "d", "e",
          "l">>,
     model |-> <<"m", "o", "d", "e", "l">>,
     city |-> <<"c", "i", "t", "y">>,
     location |-> <<"l", "o", "c", "a", "t", "i", "o", "n">>,
     loc_city |-> <<"l", "o", "c", "_", "c", "i", "t", "y">>,
     airport_code |->
        <<"a", "i", "r", "p", "o", "r", "t", "_", "c", "o", "d", "e">>,
     airport |-> <<"a", "i", "r", "p", "o", "r", "t">>,
     event_type |-> <<"e", "v", "e", "n", "t", "_", "t", "y", "p", "e">>,
     Event_type |-> <<"E", "v", "e", "n", "t", SPACE, "t", "y", "p", "e">>,
     type |-> <<"t", "y", "p", "e">>,
     phase |-> <<"p", "h", "a", "s", "e">>,
     Phase |-> <<"P", "h", "a", "s", "e">>,
     report_date |->
        <<"r", "e", "p", "o", "r", "t", "_", "d", "a", "t", "e">>,
     Report |-> <<"R", "e", "p", "o", "r", "t">>,
     pob |-> <<"p", "o", "b">>,
     POB |-> <<"P", "O", "B">>,
     injuries |-> <<"i", "n", "j", "u", "r", "i", "e", "s">>,
     Injuries |-> <<"I", "n", "j", "u", "r", "i", "e", "s">>,
     damage |-> <<"d", "a", "m", "a", "g", "e">>,
     Damage |-> <<"D", "a", "m", "a", "g", "e">>,
     c8020_9 |-> <<"8", "0", "2", "0", "_", "9">>,
     c8020dash9 |-> <<"8", "0", "2", "0", "-", "9">>,
     faa_form_8020_9 |->
        <<"f", "a", "a", "_", "f", "o", "r", "m", "_", "8", "0", "2", "0",
          "_", "9">>,
     event_date |-> <<"e", "v", "e", "n", "t", "_", "d", "a", "t", "e">>,
     date |-> <<"d", "a", "t", "e">>,
     Event_date |-> <<"E", "v", "e", "n", "t", SPACE, "d", "a", "t", "e">>,
     event_time_z |->
        <<"e", "v", "e", "n", "t", "_", "t", "i", "m", "e", "_", "z">>,
     time_z |-> <<"t", "i", "m", "e", "_", "z">>,
     Event_time_z |->
        <<"E", "v", "e", "n", "t", SPACE, "t", "i", "m", "e", SPACE, "z">>,
     event_datetime_z |->
        <<"e", "v", "e", "n", "t", "_", "d", "a", "t", "e", "t", "i", "m",
          "e", "_", "z">>,
     datetime_z |-> <<"d", "a", "t", "e", "t", "i", "m", "e", "_", "z">>,
     event_datetime |->
        <<"e", "v", "e", "n", "t", "_", "d", "a", "t", "e", "t", "i", "m",
          "e">>,
     Event_datetime_z |->
        <<"E", "v", "e", "n", "t", SPACE, "d", "a", "t", "e", "t", "i", "m",
          "e", SPACE, "z">>,
     raw_narrative |->
        <<"r", "a", "w", "_", "n", "a", "r", "r", "a", "t", "i", "v", "e">>,
     narrative |-> <<"n", "a", "r", "r", "a", "t", "i", "v", "e">>,
     Narrative |-> <<"N", "a", "r", "r", "a", "t", "i", "v", "e">>,
     context_parens |->
        <<"c", "o", "n", "t", "e", "x", "t", "_", "p", "a", "r", "e", "n",
          "s">>,
     raw_text |-> <<"r", "a", "w", "_", "t", "e", "x", "t">>,
     sources_json |->
        <<"s", "o", "u", "r", "c", "e", "s", "_", "j", "s", "o", "n">>,
     media_json |-> <<"m", "e", "d", "i", "a", "_", "j", "s", "o", "n">>,
     aircraft_image_url |->
        <<"a", "i", "r", "c", "r", "a", "f", "t", "_", "i", "m", "a", "g",
          "e", "_", "u", "r", "l">>,
     aircraft_image_type |->
        <<"a", "i", "r", "c", "r", "a", "f", "t", "_", "i", "m", "a", "g",
          "e", "_", "t", "y", "p", "e">>]

(***************************************************************************)
(* Letters and digits                                                      *)
(***************************************************************************)
LowerLetters ==
    <<"a", "b", "c", "d", "e", "f", "g", "h", "i", "j", "k", "l", "m",
      "n", "o", "p", "q", "r", "s", "t", "u", "v", "w", "x", "y", "z">>

UpperLetters ==
    <<"A", "B", "C", "D", "E", "F", "G", "H", "I", "J", "K", "L", "M",
      "N", "O", "P", "Q", "R", "S", "T", "U", "V", "W", "X", "Y", "Z">>

Digits == <<"0", "1", "2", "3", "4", "5", "6", "7", "8", "9">>

IndexIn(cs, c) == IF \E k \in 1..Len(cs) : cs[k] = c
                  THEN CHOOSE k \in 1..Len(cs) : cs[k] = c
                  ELSE 0

UpperChar(c) == IF IndexIn(LowerLetters, c) > 0
                THEN UpperLetters[IndexIn(LowerLetters, c)] ELSE c

LowerChar(c) == IF IndexIn(UpperLetters, c) > 0
                THEN LowerLetters[IndexIn(UpperLetters, c)] ELSE c

\* String.prototype.toUpperCase / toLowerCase
toUpperCase(s) == Eval(s, LAMBDA v : [k \in 1..Len(v) |-> UpperChar(v[k])])
toLowerCase(s) == Eval(s, LAMBDA v : [k \in 1..Len(v) |-> LowerChar(v[k])])

IsDigit(c) == IndexIn(Digits, c) > 0
DigitVal(c) == IndexIn(Digits, c) - 1
AllDigits(s) == \A k \in 1..Len(s) : IsDigit(s[k])

\* Number(s) of a string of digits
RECURSIVE Num(_)
Num(s) == IF s = <<>> THEN 0
          ELSE 10 * Num(SubSeq(s, 1, Len(s) - 1)) + DigitVal(s[Len(s)])

TwoDigits(n) == <<Digits[(n \div 10) + 1], Digits[(n % 10) + 1]>>

\* Array.prototype.join over strings
RECURSIVE Join(_, _)
Join(ss, sep) ==
    IF ss = <<>> THEN <<>>
    ELSE IF Len(ss) = 1 THEN ss[1]
    ELSE ss[1] \o sep \o Join(Tail(ss), sep)

\* Array.prototype.filter(Boolean) over strings: drops the empty ones
RECURSIVE NonEmpty(_)
NonEmpty(ss) ==
    IF ss = <<>> THEN <<>>
    ELSE (IF Head(ss) = <<>> THEN <<>> ELSE <<Head(ss)>>) \o NonEmpty(Tail(ss))

\* String.prototype.includes
Includes(hay, q) ==
    \E k \in 0..(Len(hay) - Len(q)) : SubSeq(hay, k + 1, k + Len(q)) = q

(***************************************************************************)
(* Calendar arithmetic of the platform's Date, in minutes since the epoch  *)
(***************************************************************************)
MinPerDay == 1440

DaysFromCivil(y, m, d) ==
    LET yy == IF m <= 2 THEN y - 1 ELSE y
        era == yy \div 400
        yoe == yy - era * 400
        mp == IF m > 2 THEN m - 3 ELSE m + 9
        doy == (153 * mp + 2) \div 5 + d - 1
        doe == yoe * 365 + yoe \div 4 - yoe \div 100 + doy
    IN  era * 146097 + doe - 719468

CivilFromDays(z) ==
    LET zz == z + 719468
        era == zz \div 146097
        doe == zz - era * 146097
        yoe == (doe - doe \div 1460 + doe \div 36524 - doe \div 146096) \div 365
        doy == doe - (365 * yoe + yoe \div 4 - yoe \div 100)
        mp == (5 * doy + 2) \div 153
        d == doy - (153 * mp + 2) \div 5 + 1
        m == IF mp < 10 THEN mp + 3 ELSE mp - 9
        y == yoe + era * 400 + (IF m <= 2 THEN 1 ELSE 0)
    IN  [year |-> y, month |-> m, day |-> d]

IsLeap(y) == (y % 4 = 0 /\ y % 100 # 0) \/ y % 400 = 0

DaysInMonth(y, m) ==
    IF m = 2 THEN (IF IsLeap(y) THEN 29 ELSE 28)
    ELSE IF m \in {4, 6, 9, 11} THEN 30 ELSE 31

\* MakeDay/MakeTime of ECMAScript: month index mo is 0-based and may lie
\* outside 0..11, day and time fields may overflow; a year 0..99 means 19xx
MakeMinutes(y, mo, d, hh, mi) ==
    LET y1 == IF y >= 0 /\ y <= 99 THEN 1900 + y ELSE y
        y2 == y1 + (mo \div 12)
        m2 == (mo % 12) + 1
    IN  (DaysFromCivil(y2, m2, 1) + d - 1) * MinPerDay + hh * 60 + mi

\* A time zone of the platform: offset east of UTC in minutes, whether it
\* keeps United States daylight time, and its short names
Zone(nm, off, hasDst, a, b) ==
    [name |-> nm, std |-> off, dst |-> hasDst, abbrStd |-> a, abbrDst |-> b]

ZoneAnchorage == Zone("America/Anchorage", -540, TRUE,
                      <<"A", "K", "S", "T">>, <<"A", "K", "D", "T">>)
ZoneHonolulu == Zone("Pacific/Honolulu", -600, FALSE,
                     <<"H", "S", "T">>, <<"H", "S", "T">>)
ZoneLosAngeles == Zone("America/Los_Angeles", -480, TRUE,
                       <<"P", "S", "T">>, <<"P", "D", "T">>)
ZoneDenver == Zone("America/Denver", -420, TRUE,
                   <<"M", "S", "T">>, <<"M", "D", "T">>)
ZoneNewYork == Zone("America/New_York", -300, TRUE,
                    <<"E", "S", "T">>, <<"E", "D", "T">>)
ZoneUTC == Zone("UTC", 0, FALSE, <<"U", "T", "C">>, <<"U", "T", "C">>)
ZoneTokyo == Zone("Asia/Tokyo", 540, FALSE,
                  <<"G", "M", "T", "+", "9">>, <<"G", "M", "T", "+", "9">>)

\* 0 = Sunday; 1970-01-01 was a Thursday
DayOfWeek(days) == (days + 4) % 7

\* day of month of the n-th Sunday of month m of year y
NthSunday(y, m, n) ==
    1 + ((7 - DayOfWeek(DaysFromCivil(y, m, 1))) % 7) + 7 * (n - 1)

\* United States rule since 2007: from 02:00 standard time on the second
\* Sunday of March to 02:00 daylight time on the first Sunday of November
InDaylightTime(z, t) ==
    Eval(CivilFromDays((t + z.std) \div MinPerDay).year, LAMBDA y :
        LET start == DaysFromCivil(y, 3, NthSunday(y, 3, 2)) * MinPerDay
                       + 120 - z.std
            end == DaysFromCivil(y, 11, NthSunday(y, 11, 1)) * MinPerDay
                       + 120 - (z.std + 60)
        IN  z.dst /\ start <= t /\ t < end)

OffsetAt(z, t) ==
    Eval(t, LAMBDA u : IF InDaylightTime(z, u) THEN z.std + 60 ELSE z.std)

AbbrAt(z, t) == IF InDaylightTime(z, t) THEN z.abbrDst ELSE z.abbrStd

\* the instant of a wall-clock time of zone z (transitions are at 02:00, so
\* the offset one standard-time guess away is the one in force)
LocalToUTC(z, localMin) ==
    Eval(localMin, LAMBDA wall : wall - OffsetAt(z, wall - z.std))

\* A Date or a time value: NaN / null is [ok |-> FALSE]
Invalid == [ok |-> FALSE, t |-> 0]
Valid(n) == [ok |-> TRUE, t |-> n]

(***************************************************************************)
(* Date.parse of the platform, for the forms the data uses:                *)
(*   YYYY-MM-DD (UTC), YYYY-MM-DDTHH:MM[:SS][Z] (UTC with Z, else local),   *)
(*   M/D/YYYY (local midnight; every major engine reads it so).            *)
(* Anything else is NaN.  Seconds are read and dropped.                    *)
(***************************************************************************)
IsIsoDate(s) ==
    /\ Len(s) = 10
    /\ s[5] = "-" /\ s[8] = "-"
    /\ AllDigits(SubSeq(s, 1, 4)) /\ AllDigits(SubSeq(s, 6, 7))
    /\ AllDigits(SubSeq(s, 9, 10))
    /\ Num(SubSeq(s, 6, 7)) \in 1..12
    /\ Num(SubSeq(s, 9, 10)) \in
          1..DaysInMonth(Num(SubSeq(s, 1, 4)), Num(SubSeq(s, 6, 7)))

IsoDateDays(s) ==
    DaysFromCivil(Num(SubSeq(s, 1, 4)), Num(SubSeq(s, 6, 7)),
                  Num(SubSeq(s, 9, 10)))

\* HH:MM or HH:MM:SS
IsIsoClock(s) ==
    /\ Len(s) \in {5, 8}
    /\ AllDigits(SubSeq(s, 1, 2)) /\ s[3] = ":" /\ AllDigits(SubSeq(s, 4, 5))
    /\ Num(SubSeq(s, 1, 2)) < 24 /\ Num(SubSeq(s, 4, 5)) < 60
    /\ Len(s) = 8 =>
          s[6] = ":" /\ AllDigits(SubSeq(s, 7, 8)) /\ Num(SubSeq(s, 7, 8)) < 60

IsoClockMinutes(s) == Num(SubSeq(s, 1, 2)) * 60 + Num(SubSeq(s, 4, 5))

\* the pieces of s between slashes
RECURSIVE SplitSlash(_, _)
SplitSlash(s, acc) ==
    IF s = <<>> THEN <<acc>>
    ELSE IF Head(s) = "/" THEN <<acc>> \o SplitSlash(Tail(s), <<>>)
    ELSE SplitSlash(Tail(s), Append(acc, Head(s)))

\* /^(\d{1,2})\/(\d{1,2})\/(\d{4})$/
MatchesMDY(s) ==
    LET p == SplitSlash(s, <<>>)
    IN  /\ Len(p) = 3
        /\ Len(p[1]) \in 1..2 /\ AllDigits(p[1])
        /\ Len(p[2]) \in 1..2 /\ AllDigits(p[2])
        /\ Len(p[3]) = 4 /\ AllDigits(p[3])

MDYParts(s) ==
    LET p == SplitSlash(s, <<>>)
    IN  [mm |-> Num(p[1]), dd |-> Num(p[2]), yyyy |-> Num(p[3])]

DateParseOf(s, z) ==
    IF IsIsoDate(s) THEN Valid(IsoDateDays(s) * MinPerDay)
    ELSE IF Len(s) > 11 /\ IsIsoDate(SubSeq(s, 1, 10)) /\ s[11] = "T"
    THEN LET rest == SubSeq(s, 12, Len(s))
             utc == Len(rest) > 0 /\ rest[Len(rest)] = "Z"
             clock == IF utc THEN SubSeq(rest, 1, Len(rest) - 1) ELSE rest
             wall == IsoDateDays(SubSeq(s, 1, 10)) * MinPerDay
                        + IsoClockMinutes(clock)
         IN  IF ~IsIsoClock(clock) THEN Invalid
             ELSE IF utc THEN Valid(wall)
             ELSE Valid(LocalToUTC(z, wall))
    ELSE IF MatchesMDY(s)
            /\ MDYParts(s).mm \in 1..12
            /\ MDYParts(s).dd \in 1..DaysInMonth(MDYParts(s).yyyy, MDYParts(s).mm)
    THEN Valid(LocalToUTC(z, DaysFromCivil(MDYParts(s).yyyy, MDYParts(s).mm,
                                           MDYParts(s).dd) * MinPerDay))
    ELSE Invalid

DateParse(str, z) == Eval(str, LAMBDA s : DateParseOf(s, z))

\* new Date(y, monthIndex, d): local midnight
LocalDate(z, y, mo, d) ==
    Eval(MakeMinutes(y, mo, d, 0, 0), LAMBDA wall : Valid(LocalToUTC(z, wall)))

\* Date.prototype.getFullYear / getMonth in the browser's zone
LocalCivil(z, t) ==
    Eval(t, LAMBDA u : CivilFromDays((u + OffsetAt(z, u)) \div MinPerDay))

(***************************************************************************)
(* Field resolution, src/app.js lines 67-77.  A raw record is a function   *)
(* from column names to cell strings; a column the file does not have is   *)
(* not in its domain (obj[k] is undefined).                                *)
(***************************************************************************)
Present(obj, k) == k \in DOMAIN obj

RECURSIVE getAnyMutant(_, _)
getAnyMutant(obj, keys) ==
    IF keys = <<>> THEN <<>>
    ELSE IF Present(obj, Head(keys)) THEN norm(obj[Head(keys)])
    ELSE getAnyMutant(obj, Tail(keys))

RECURSIVE getAnyLoop(_, _)
getAnyLoop(obj, keys) ==
    IF keys = <<>> THEN <<>>
    ELSE IF Present(obj, Head(keys)) /\ norm(obj[Head(keys)]) # <<>>
    THEN norm(obj[Head(keys)])
    ELSE getAnyLoop(obj, Tail(keys))

getAny(obj, keys) == getAnyLoop(obj, keys)

(***************************************************************************)
(* Time helpers, src/app.js lines 80-108                                   *)
(***************************************************************************)
BULLET == "U+2022"

UnknownAircraft ==
    <<"U", "n", "k", "n", "o", "w", "n", SPACE, "a", "i", "r", "c", "r", "a",
      "f", "t">>
UnknownModel ==
    <<"U", "n", "k", "n", "o", "w", "n", SPACE, "m", "o", "d", "e", "l">>
Unknown == <<"U", "n", "k", "n", "o", "w", "n">>
NoNarrative ==
    <<"N", "o", SPACE, "n", "a", "r", "r", "a", "t", "i", "v", "e", SPACE,
      "p", "r", "o", "v", "i", "d", "e", "d", ".">>
UnknownLocationDate ==
    <<"U", "n", "k", "n", "o", "w", "n", SPACE, "l", "o", "c", "a", "t", "i",
      "o", "n", SPACE, BULLET, SPACE, "U", "n", "k", "n", "o", "w", "n",
      SPACE, "d", "a", "t", "e">>
Oldest == <<"o", "l", "d", "e", "s", "t">>
Newest == <<"n", "e", "w", "e", "s", "t">>

StateAK == <<"A", "K">>
StateHI == <<"H", "I">>
PacificStates == {<<"C", "A">>, <<"O", "R">>, <<"W", "A">>, <<"N", "V">>}
MountainStates ==
    {<<"I", "D">>, <<"U", "T">>, <<"W", "Y">>, <<"C", "O">>, <<"M", "T">>,
     <<"A", "Z">>, <<"N", "M">>}

MappedStates == {StateAK, StateHI} \cup PacificStates \cup MountainStates

\* tzForState(state); browser is Intl.DateTimeFormat().resolvedOptions().timeZone
tzForState(state, browser) ==
    LET s == toUpperCase(state)
    IN  IF s = StateAK THEN ZoneAnchorage
        ELSE IF s = StateHI THEN ZoneHonolulu
        ELSE IF s \in PacificStates THEN ZoneLosAngeles
        ELSE IF s \in MountainStates THEN ZoneDenver
        ELSE browser

\* the hour, minute and timeZoneName parts of Intl.DateTimeFormat("en-US",
\* {timeZone, hour, minute: "2-digit", hour12: false, timeZoneName: "short"})
FormatParts(z, t) ==
    LET minuteOfDay == (t + OffsetAt(z, t)) % MinPerDay
    IN  [hour |-> TwoDigits(minuteOfDay \div 60),
         minute |-> TwoDigits(minuteOfDay % 60),
         timeZoneName |-> AbbrAt(z, t)]

FormatLabel(parts) ==
    parts.hour \o <<":">> \o parts.minute \o <<SPACE>> \o parts.timeZoneName

formatLocalFromISO(iso, state, browser) ==
    Eval(norm(iso), LAMBDA z :
        IF z = <<>> THEN <<>>
        ELSE Eval(DateParse(z, browser), LAMBDA d :
            IF ~d.ok THEN <<>>
            ELSE Eval(tzForState(state, browser), LAMBDA timeZone :
                    Eval(FormatParts(timeZone, d.t),
                         LAMBDA parts : FormatLabel(parts)))))

(***************************************************************************)
(* toIncident, src/app.js lines 247-319                                    *)
(***************************************************************************)
\* a || b for strings
OrMutant(a, b) == a
Or(a, b) == IF a # <<>> THEN a ELSE b

\* lines 267-270
narrativeOfMutant(r) ==
    Or(getAny(r, <<K.raw_narrative>>),
       getAny(r, <<K.narrative, K.Narrative, K.context_parens, K.raw_text>>))
narrativeOf(r) ==
    Or(getAny(r, <<K.raw_narrative>>),
       Or(getAny(r, <<K.narrative, K.Narrative, K.context_parens, K.raw_text>>),
          NoNarrative))

\* lines 248-276: the values getAny resolves from the raw record
resolved(r) ==
    [state |-> getAny(r, <<K.state, K.State>>),
     tail |-> getAny(r, <<K.aircraft_primary, K.tail_number, K.tail,
                          K.n_number>>),
     model |-> getAny(r, <<K.aircraft_primary_model, K.aircraft_primary_m,
                           K.aircraft_model, K.model>>),
     city |-> getAny(r, <<K.city, K.location, K.loc_city>>),
     airport |-> getAny(r, <<K.airport_code, K.airport>>),
     eventType |-> getAny(r, <<K.event_type, K.Event_type, K.type>>),
     phase |-> getAny(r, <<K.phase, K.Phase>>),
     reportDate |-> getAny(r, <<K.report_date, K.Report>>),
     pob |-> getAny(r, <<K.pob, K.POB>>),
     injuries |-> getAny(r, <<K.injuries, K.Injuries>>),
     damage |-> getAny(r, <<K.damage, K.Damage>>),
     form8020 |-> getAny(r, <<K.c8020_9, K.c8020dash9, K.faa_form_8020_9>>),
     eventDate |-> getAny(r, <<K.event_date, K.date, K.Event_date>>),
     eventTimeZ |-> getAny(r, <<K.event_time_z, K.time_z, K.Event_time_z>>),
     eventISO |-> getAny(r, <<K.event_datetime_z, K.datetime_z,
                              K.event_datetime, K.Event_datetime_z>>),
     narrative |-> narrativeOf(r),
     sourcesJson |-> getAny(r, <<K.sources_json>>),
     mediaJson |-> getAny(r, <<K.media_json>>),
     aircraftImageUrl |-> getAny(r, <<K.aircraft_image_url>>),
     aircraftImageType |-> getAny(r, <<K.aircraft_image_type>>)]

\* line 278: the local-time label is computed from the ISO column alone
localTimeOf(v, browser) == formatLocalFromISO(v.eventISO, v.state, browser)

\* lines 280-285
line2Of(v, localTime) ==
    Eval(Join(NonEmpty(<<Or(v.city, v.airport), v.state>>), <<COMMA, SPACE>>),
         LAMBDA line2Left :
    Eval(NonEmpty(<<v.eventDate, v.eventTimeZ, localTime>>),
         LAMBDA line2Right :
            IF Len(line2Right) > 0
            THEN line2Left \o <<SPACE, BULLET, SPACE>> \o line2Right[1]
                   \o <<SPACE, "(">>
                   \o Join(Tail(line2Right), <<SPACE, "/", SPACE>>)
                   \o <<")">>
            ELSE Or(line2Left, UnknownLocationDate)))

\* lines 287-291
haystackOf(v) ==
    Eval(<<v.tail, v.model, v.city, v.state, v.airport, v.eventType, v.phase,
           v.reportDate, v.pob, v.injuries, v.damage, v.form8020,
           v.eventDate, v.eventTimeZ, v.narrative, v.sourcesJson,
           v.mediaJson, v.aircraftImageUrl, v.aircraftImageType>>,
         LAMBDA parts : toLowerCase(Join(parts, <<SPACE>>)))

\* lines 293-318 (the parsed _sources and _media arrays are left out)
incidentOf(r, v, localTime) ==
    [row |-> r,
     _state |-> v.state,
     _tail |-> Or(v.tail, UnknownAircraft),
     _model |-> Or(v.model, UnknownModel),
     _city |-> v.city,
     _airport |-> v.airport,
     _eventType |-> Or(v.eventType, <<>>),
     _phase |-> Or(v.phase, <<>>),
     _reportDate |-> Or(v.reportDate, <<>>),
     _pob |-> Or(v.pob, Unknown),
     _injuries |-> Or(v.injuries, Unknown),
     _damage |-> Or(v.damage, Unknown),
     _form8020 |-> Or(v.form8020, Unknown),
     _eventDate |-> Or(v.eventDate, <<>>),
     _eventTimeZ |-> Or(v.eventTimeZ, <<>>),
     _eventISO |-> Or(v.eventISO, <<>>),
     _localTime |-> Or(localTime, <<>>),
     _line2 |-> line2Of(v, localTime),
     _narrative |-> v.narrative,
     _haystack |-> haystackOf(v),
     _aircraftImageUrl |-> Or(v.aircraftImageUrl, <<>>),
     _aircraftImageType |-> toLowerCase(Or(v.aircraftImageType, <<>>))]

toIncident(r, browser) ==
    Eval(resolved(r), LAMBDA v :
        Eval(localTimeOf(v, browser), LAMBDA localTime :
            incidentOf(r, v, localTime)))

(***************************************************************************)
(* getEventDate, src/app.js lines 192-212                                  *)
(***************************************************************************)
getEventDate(it, browser) ==
    Eval(IF it._eventISO # <<>> THEN DateParse(it._eventISO, browser)
         ELSE Invalid,
         LAMBDA d :
            IF d.ok THEN d
            ELSE IF it._eventDate # <<>> /\ MatchesMDY(it._eventDate)
            THEN Eval(MDYParts(it._eventDate), LAMBDA m :
                    LocalDate(browser, m.yyyy, m.mm - 1, m.dd))
            ELSE Invalid)

\* toDate of applyFilters, lines 489-492
toDate(it, browser) ==
    Eval(getEventDate(it, browser), LAMBDA d : IF d.ok THEN d.t ELSE 0)

(***************************************************************************)
(* Variant with bestDateScore, src/app.js lines 696-731.  Its records hold *)
(* trimmed cells (parseCSV, line 667); r.x of a missing column is          *)
(* undefined, which the code treats like the empty string.                 *)
(***************************************************************************)
Field(r, k) == IF k \in DOMAIN r THEN r[k] ELSE <<>>

\* line 667
TrimmedRecord(r) == [k \in DOMAIN r |-> Trim(r[k])]

\* lines 696-700: null is [ok |-> FALSE]
mmddyyyyToParts(s) ==
    IF MatchesMDY(Trim(s))
    THEN [ok |-> TRUE, mm |-> MDYParts(Trim(s)).mm, dd |-> MDYParts(Trim(s)).dd,
          yyyy |-> MDYParts(Trim(s)).yyyy]
    ELSE [ok |-> FALSE, mm |-> 0, dd |-> 0, yyyy |-> 0]

\* replace(/[^\d]/g, "")
RECURSIVE OnlyDigits(_)
OnlyDigits(s) ==
    IF s = <<>> THEN <<>>
    ELSE (IF IsDigit(Head(s)) THEN <<Head(s)>> ELSE <<>>) \o OnlyDigits(Tail(s))

\* padStart(4, "0")
RECURSIVE PadStart4(_)
PadStart4(s) == IF Len(s) >= 4 THEN s ELSE PadStart4(<<"0">> \o s)

\* lines 702-715
zuluToUTCDate(event_date, event_time_z) ==
    LET d == mmddyyyyToParts(event_date)
        t == OnlyDigits(event_time_z)
        t4 == PadStart4(t)
        hh == Num(SubSeq(t4, 1, 2))
        mi == Num(SubSeq(t4, 3, 4))
    IN  IF ~d.ok THEN Invalid
        ELSE IF t = <<>> THEN Invalid
        ELSE Valid(MakeMinutes(d.yyyy, d.mm - 1, d.dd, hh, mi))

\* lines 717-731
bestDateScore(r, browser) ==
    LET iso == Field(r, K.event_datetime_z)
        dt == zuluToUTCDate(Field(r, K.event_date), Field(r, K.event_time_z))
        rd == Field(r, K.report_date)
    IN  IF iso # <<>> /\ DateParse(iso, browser).ok
        THEN DateParse(iso, browser).t
        ELSE IF dt.ok THEN dt.t
        ELSE IF rd # <<>> /\ DateParse(rd, browser).ok
        THEN DateParse(rd, browser).t
        ELSE 0

(***************************************************************************)
(* The page, src/app.js lines 214-244 and 322-546: the dropdowns, render,  *)
(* applyFilters and init.  A control is its value; a dropdown also has the *)
(* values of its options.                                                  *)
(***************************************************************************)
\* String(n) of a natural number
RECURSIVE StringOf(_)
StringOf(n) ==
    IF n < 10 THEN <<Digits[n + 1]>>
    ELSE StringOf(n \div 10) \o <<Digits[(n % 10) + 1]>>

\* String.prototype.localeCompare of the platform, for the characters the
\* data uses: white space and punctuation sort before digits, digits before
\* letters; letters compare without regard to case, and between strings
\* that differ in case only the one with the lower-case letter sorts first
Punctuation == <<SPACE, "_", "-", COMMA, ":", ".", QUOTE, "(", ")", "/">>

CharRank(c) ==
    IF IndexIn(LowerLetters, LowerChar(c)) > 0
    THEN Len(Punctuation) + Len(Digits) + IndexIn(LowerLetters, LowerChar(c))
    ELSE IF IsDigit(c) THEN Len(Punctuation) + IndexIn(Digits, c)
    ELSE IndexIn(Punctuation, c)

RECURSIVE PrimaryCompare(_, _)
PrimaryCompare(a, b) ==
    IF a = <<>> /\ b = <<>> THEN 0
    ELSE IF a = <<>> THEN -1
    ELSE IF b = <<>> THEN 1
    ELSE IF CharRank(Head(a)) < CharRank(Head(b)) THEN -1
    ELSE IF CharRank(Head(a)) > CharRank(Head(b)) THEN 1
    ELSE PrimaryCompare(Tail(a), Tail(b))

RECURSIVE CaseCompare(_, _)
CaseCompare(a, b) ==
    IF a = <<>> \/ b = <<>> THEN 0
    ELSE IF Head(a) = Head(b) THEN CaseCompare(Tail(a), Tail(b))
    ELSE IF LowerChar(Head(a)) = Head(a) THEN -1
    ELSE 1

localeCompare(a, b) ==
    IF PrimaryCompare(a, b) # 0 THEN PrimaryCompare(a, b)
    ELSE CaseCompare(a, b)

\* the elements of a set of strings in localeCompare order
RECURSIVE LocaleSorted(_)
LocaleSorted(S) ==
    IF S = {} THEN <<>>
    ELSE LET m == CHOOSE x \in S : \A y \in S : localeCompare(x, y) <= 0
         IN  <<m>> \o LocaleSorted(S \ {m})

\* the elements of a set of numbers, smallest first / largest first
RECURSIVE Ascending(_)
Ascending(S) ==
    IF S = {} THEN <<>>
    ELSE LET m == CHOOSE x \in S : \A y \in S : x <= y
         IN  <<m>> \o Ascending(S \ {m})

RECURSIVE Descending(_)
Descending(S) ==
    IF S = {} THEN <<>>
    ELSE LET m == CHOOSE x \in S : \A y \in S : x >= y
         IN  <<m>> \o Descending(S \ {m})

Range(s) == {s[k] : k \in 1..Len(s)}

\* lines 337-339
uniqueSortedMutant(arr) == LocaleSorted(Range(arr))
uniqueSorted(arr) == LocaleSorted(Range(arr) \ {<<>>})

\* lines 322-335: the option values of a refilled dropdown, "All" first
fillSelect(values) == << <<>> >> \o values

\* lines 214-244: the year and month option values, "All" first
EventDates(incidents, browser) ==
    {getEventDate(incidents[k], browser) : k \in 1..Len(incidents)}
        \ {Invalid}

YearOptions(incidents, browser) ==
    Eval(Descending({LocalCivil(browser, d.t).year :
                        d \in EventDates(incidents, browser)}),
         LAMBDA sorted :
            << <<>> >> \o [k \in 1..Len(sorted) |-> StringOf(sorted[k])])

MonthOptions(incidents, browser) ==
    Eval(Ascending({LocalCivil(browser, d.t).month - 1 :
                       d \in EventDates(incidents, browser)}),
         LAMBDA sorted :
            << <<>> >> \o [k \in 1..Len(sorted) |-> StringOf(sorted[k])])

\* lines 473-487: the predicate of INCIDENTS.filter
\* lines 464-471: the values read from the controls
controlValues(c) ==
    [q |-> toLowerCase(norm(c.search)), st |-> norm(c.state),
     ev |-> norm(c.event), ph |-> norm(c.phase), sort |-> norm(c.sort),
     y |-> norm(c.year), m |-> norm(c.month)]

PassesMutant(it, f, browser) ==
    /\ f.st # <<>> => it._state = f.st
    /\ f.ph # <<>> => it._phase = f.ph
    /\ f.q # <<>> => Includes(it._haystack, f.q)
    /\ (f.y # <<>> \/ f.m # <<>>) =>
          Eval(getEventDate(it, browser), LAMBDA d :
              /\ d.ok
              /\ f.y # <<>> => LocalCivil(browser, d.t).year = Num(f.y)
              /\ f.m # <<>> => LocalCivil(browser, d.t).month - 1 = Num(f.m))
Passes(it, f, browser) ==
    /\ f.st # <<>> => it._state = f.st
    /\ f.ev # <<>> => it._eventType = f.ev
    /\ f.ph # <<>> => it._phase = f.ph
    /\ f.q # <<>> => Includes(it._haystack, f.q)
    /\ (f.y # <<>> \/ f.m # <<>>) =>
          Eval(getEventDate(it, browser), LAMBDA d :
              /\ d.ok
              /\ f.y # <<>> => LocalCivil(browser, d.t).year = Num(f.y)
              /\ f.m # <<>> => LocalCivil(browser, d.t).month - 1 = Num(f.m))

\* lines 494-498: the comparator, on the keys toDate gave
CompareMutant(da, db, sort) == da - db
Compare(da, db, sort) == IF sort = Oldest THEN da - db ELSE db - da

\* Array.prototype.sort is stable: an element goes after the elements that
\* do not sort after it
RECURSIVE InsertSorted(_, _, _)
InsertSorted(x, s, sort) ==
    IF s = <<>> THEN <<x>>
    ELSE IF Compare(s[Len(s)].key, x.key, sort) <= 0 THEN Append(s, x)
    ELSE Append(InsertSorted(x, SubSeq(s, 1, Len(s) - 1), sort), s[Len(s)])

RECURSIVE SortKeyed(_, _)
SortKeyed(s, sort) ==
    IF s = <<>> THEN <<>>
    ELSE InsertSorted(s[Len(s)], SortKeyed(SubSeq(s, 1, Len(s) - 1), sort),
                      sort)

\* lines 463-498: the new value of FILTERED
applyFilters(incidents, c, browser) ==
    Eval(controlValues(c), LAMBDA f :
    Eval(SelectSeq(incidents, LAMBDA it : Passes(it, f, browser)),
         LAMBDA kept :
    Eval([k \in 1..Len(kept) |->
             [key |-> toDate(kept[k], browser), it |-> kept[k]]],
         LAMBDA keyed :
    Eval(SortKeyed(keyed, f.sort),
         LAMBDA sorted : [k \in 1..Len(sorted) |-> sorted[k].it]))))

\* lines 342-460: render() empties the results and sets the row count; the
\* first card it builds reads narrText (line 365), which nothing declares,
\* so it throws a ReferenceError before any card is appended
renderThrows(filtered) == filtered # <<>>

\* line 510
MoreThanOneCell(r) == Len(r) > 1

\* lines 516-520: one raw record, built as headers.forEach builds it: the
\* assignment obj[h] = r[i] ?? "" for each header in turn, on an object that
\* starts empty
RECURSIVE RowObjectLoopMutant(_, _, _, _)
RowObjectLoopMutant(headers, r, k, obj) ==
    IF k > Len(headers) THEN obj
    ELSE RowObjectLoopMutant(headers, r, k + 1,
             obj @@ (headers[k] :> (IF k <= Len(r) THEN r[k] ELSE <<>>)))

RECURSIVE RowObjectLoop(_, _, _, _)
RowObjectLoop(headers, r, k, obj) ==
    IF k > Len(headers) THEN obj
    ELSE RowObjectLoop(headers, r, k + 1,
             (headers[k] :> (IF k <= Len(r) THEN r[k] ELSE <<>>)) @@ obj)

RowObject(headers, r) == RowObjectLoop(headers, r, 1, <<>>)

\* lines 510-522: INCIDENTS of the rows the tokenizer kept
IncidentsOf(rs, browser) ==
    Eval([k \in 1..Len(rs[1]) |-> norm(rs[1][k])], LAMBDA headers :
        [k \in 1..(Len(rs) - 1) |->
            Eval(RowObject(headers, rs[k + 1]),
                 LAMBDA obj : toIncident(obj, browser))])

StatusInitial == ""
StatusLoaded == "Loaded OK (narrative column: raw_narrative)"
StatusFetchFailed == "Load error: Unable to load CSV"
\* the message of the TypeError a rejected fetch carries
StatusFetchRejected == "Load error: Failed to fetch"
StatusCsvEmpty == "Load error: CSV is empty"
StatusRenderFailed == "Load error: narrText is not defined"

(***************************************************************************)
(* Inputs of the tokenizer runs                                            *)
(***************************************************************************)
MaxLen == 4
MaxStr == 3

Alphabet == {"a", COMMA, QUOTE, LF, CR, SPACE}

SeqsUpTo(S, n) == UNION {[1..k -> S] : k \in 0..n}

\* a,"b,c","d""e"<LF>f,g,h
Fixture ==
    <<"a", COMMA, QUOTE, "b", COMMA, "c", QUOTE, COMMA,
      QUOTE, "d", QUOTE, QUOTE, "e", QUOTE, LF, "f", COMMA, "g", COMMA, "h">>

FixtureRows ==
    << <<(<<"a">>), <<"b", COMMA, "c">>, <<"d", QUOTE, "e">> >>,
       <<(<<"f">>), <<"g">>, <<"h">> >> >>

CsvInit ==
    /\ \/ /\ kind = "raw"
          /\ text \in SeqsUpTo(Alphabet, MaxLen) \cup {Fixture}
          /\ src = <<>>
       \/ /\ kind = "escaped"
          /\ src \in SeqsUpTo(Alphabet, MaxStr)
          /\ text = csvEscape(src)
    /\ i = 0
    /\ cur = <<>>
    /\ row = <<>>
    /\ rows = <<>>
    /\ inQuotes = FALSE
    /\ ppc = "loop"

PNow == PState(i, cur, row, rows, inQuotes)

PSet(s) ==
    /\ i' = s.i
    /\ cur' = s.cur
    /\ row' = s.row
    /\ rows' = s.rows
    /\ inQuotes' = s.inQuotes
    /\ UNCHANGED <<text, src, kind, ppc, notCsv>>

CsvEscapedQuote ==
    ppc = "loop" /\ i < Len(text) /\ IsEscapedQuote(text, PNow)
    /\ PSet(PStep(text, PNow))

CsvToggleQuote ==
    ppc = "loop" /\ i < Len(text) /\ IsToggleQuote(text, PNow)
    /\ PSet(PStep(text, PNow))

CsvComma ==
    ppc = "loop" /\ i < Len(text) /\ IsComma(text, PNow)
    /\ PSet(PStep(text, PNow))

CsvNewline ==
    ppc = "loop" /\ i < Len(text) /\ IsNewline(text, PNow)
    /\ PSet(PStep(text, PNow))

CsvOrdinary ==
    ppc = "loop" /\ i < Len(text) /\ IsOrdinary(text, PNow)
    /\ PSet(PStep(text, PNow))

CsvFlush ==
    /\ ppc = "loop" /\ i >= Len(text)
    /\ rows' = PFlush(PNow)
    /\ ppc' = "done"
    /\ UNCHANGED <<text, src, kind, i, cur, row, inQuotes, notCsv>>

CsvNext ==
    \/ CsvEscapedQuote
    \/ CsvToggleQuote
    \/ CsvComma
    \/ CsvNewline
    \/ CsvOrdinary
    \/ CsvFlush


(***************************************************************************)
(* Tokenizer claims                                                        *)
(***************************************************************************)
\* position k (1-based) of t lies inside a quoted field: an odd number of
\* double-quote characters precedes it
InsideQuotes(t, k) == Cardinality({j \in 1..(k - 1) : t[j] = QUOTE}) % 2 = 1

InsideCount(t, cs) ==
    Cardinality({k \in 1..Len(t) : t[k] \in cs /\ InsideQuotes(t, k)})

OutsideCount(t, cs) ==
    Cardinality({k \in 1..Len(t) : t[k] \in cs /\ ~InsideQuotes(t, k)})

AllCells(rs) == Flatten(rs)

CharsOf(rs) == Flatten(AllCells(rs))

\* C1: parseCsv splits into cells at commas outside quotes and into rows at
\* newlines outside quotes, keeps commas and newlines inside quotes as cell
\* text, and the fixture a,"b,c","d""e"<LF>f,g,h gives exactly the two rows
\* [a; b,c; d"e] and [f; g; h].
C1_AtEnd ==
    (ppc = "done" /\ kind = "raw") =>
        /\ text = Fixture => rows = FixtureRows
        \* every comma inside quotes is cell text, no comma outside quotes is
        /\ Count(CharsOf(rows), COMMA) = InsideCount(text, {COMMA})
        \* each comma outside quotes separates two cells of one row
        /\ Len(AllCells(rows)) - Len(rows) = OutsideCount(text, {COMMA})
        \* only a newline outside quotes ends a row
        /\ Len(rows) <= OutsideCount(text, {LF, CR}) + 1

C1_Step ==
    (ppc = "loop" /\ i < Len(text)) =>
        LET c == CharAt(text, i)
            n == CharAt(text, i + 1)
        IN  \* a comma or newline inside quotes is copied into the cell
            /\ (inQuotes /\ c \in {COMMA, LF, CR}) =>
                   /\ cur' = Append(cur, c) /\ row' = row /\ rows' = rows
                   /\ inQuotes' /\ i' = i + 1
            \* a doubled quote inside quotes gives one quote, both consumed
            /\ (inQuotes /\ c = QUOTE /\ n = QUOTE) =>
                   /\ cur' = Append(cur, QUOTE) /\ row' = row /\ rows' = rows
                   /\ inQuotes' /\ i' = i + 2
            \* a comma outside quotes ends the cell
            /\ (~inQuotes /\ c = COMMA) =>
                   /\ row' = Append(row, cur) /\ cur' = <<>> /\ rows' = rows
            \* a newline outside quotes ends the cell and the row
            /\ (~inQuotes /\ c \in {LF, CR}) =>
                   /\ row' = <<>> /\ cur' = <<>>
                   /\ rows' \in {rows, Append(rows, Append(row, cur))}

C1_Tokenizer == []C1_AtEnd /\ [][C1_Step]_vars

C1_Witness == ppc = "done" /\ text = Fixture /\ rows = FixtureRows

\* C2: for every string s holding a comma, a double-quote or a newline,
\* parseCsv(csvEscape(s)) is one row of one cell equal to s.
C2_RoundTrip ==
    (ppc = "done" /\ kind = "escaped" /\ NeedsQuoting(src)) =>
        rows = << <<src>> >>

C2_Witness ==
    /\ ppc = "done" /\ kind = "escaped"
    /\ Contains(src, QUOTE) /\ Contains(src, COMMA) /\ Contains(src, LF)
    /\ rows = << <<src>> >>

\* C18: parseCsv ends on every finite text, a text with a quote left open
\* included: every iteration of the loop moves the index forward, the loop
\* is left when the index reaches the end of the text, and the text
\* collected in a field whose quote is still open at the end is the last
\* cell of the last row.
C18_IndexGrows ==
    (ppc = "loop" /\ i < Len(text)) =>
        /\ i' > i /\ i' <= Len(text) + 1
        /\ ppc' = "loop"

C18_OpenFieldEmitted ==
    (ppc = "done" /\ inQuotes /\ cur # <<>>) =>
        /\ rows # <<>>
        /\ rows[Len(rows)][Len(rows[Len(rows)])] = cur

C18_Terminates ==
    /\ [][C18_IndexGrows]_vars
    /\ []C18_OpenFieldEmitted
    /\ <>(ppc = "done")

C18_Witness ==
    /\ ppc = "done" /\ kind = "raw" /\ inQuotes
    /\ cur # <<>> /\ Len(rows) = 2
    /\ rows[2] = <<cur>>
    /\ text[Len(text)] # QUOTE

(***************************************************************************)
(* The three tokenizers on the same bounded texts: the one of lines 23-65  *)
(* step by step (the actions above), the other two in one step each.       *)
(***************************************************************************)
TokInit ==
    /\ kind = "raw"
    /\ text \in SeqsUpTo(Alphabet, MaxLen)
    /\ src = <<>>
    /\ i = 0
    /\ cur = <<>>
    /\ row = <<>>
    /\ rows = <<>>
    /\ inQuotes = FALSE
    /\ ppc \in {"loop", "call 958", "call part_001"}

Tokenize_958 ==
    /\ ppc = "call 958"
    /\ rows' = parseCsv_958(text)
    /\ ppc' = "done 958"
    /\ UNCHANGED <<text, src, kind, i, cur, row, inQuotes, notCsv>>

Tokenize_part001 ==
    /\ ppc = "call part_001"
    /\ rows' = parseCsv_part001(text)
    /\ ppc' = "done part_001"
    /\ UNCHANGED <<text, src, kind, i, cur, row, inQuotes, notCsv>>

TokNext == CsvNext \/ Tokenize_958 \/ Tokenize_part001

\* C16: inside a quoted field every character other than the double-quote
\* (a comma, LF, CR, CR LF) is copied into the field unchanged and ends
\* neither the field nor the row, in parseCsv of lines 23-65 and in parseCsv
\* of lines 958-1008.
QuotedBody == SubSeq(text, 2, Len(text) - 1)

\* the text is one quoted field with some text in it and no quote
OneQuotedField ==
    /\ Len(text) >= 3
    /\ text[1] = QUOTE /\ text[Len(text)] = QUOTE
    /\ ~Contains(QuotedBody, QUOTE)
    /\ Trim(QuotedBody) # <<>>

C16_AtEnd ==
    (ppc \in {"done", "done 958"} /\ OneQuotedField) =>
        rows = << <<QuotedBody>> >>

C16_Step ==
    (ppc = "loop" /\ i < Len(text) /\ inQuotes /\ CharAt(text, i) # QUOTE) =>
        /\ cur' = Append(cur, CharAt(text, i))
        /\ row' = row /\ rows' = rows /\ inQuotes' /\ i' = i + 1

C16_QuotedLiteral == []C16_AtEnd /\ [][C16_Step]_vars

\* the text with every CR LF and every lone CR written as LF
RECURSIVE WithLF(_)
WithLF(t) ==
    IF t = <<>> THEN <<>>
    ELSE IF Head(t) = CR /\ Len(t) > 1 /\ t[2] = LF
    THEN <<LF>> \o WithLF(SubSeq(t, 3, Len(t)))
    ELSE IF Head(t) = CR THEN <<LF>> \o WithLF(Tail(t))
    ELSE <<Head(t)>> \o WithLF(Tail(t))

\* C17: outside quotes LF ends the field and the row, CR LF ends the row
\* once, and a CR not followed by LF ends the row as LF does, in parseCsv of
\* src/app.js lines 23-65 and of src/unnamed/part_001 lines 26-70; so a
\* text without quotes gives the same rows with LF, CR LF or CR line
\* endings.
C17_AtEnd ==
    ~Contains(text, QUOTE) =>
        /\ ppc = "done" => rows = parseCsv(WithLF(text))
        /\ ppc = "done part_001" => rows = parseCsv_part001(WithLF(text))

C17_Step ==
    (ppc = "loop" /\ i < Len(text) /\ ~inQuotes
        /\ CharAt(text, i) \in {LF, CR}) =>
        /\ row' = <<>> /\ cur' = <<>>
        /\ rows' \in {rows, Append(rows, Append(row, cur))}
        /\ i' = IF CharAt(text, i) = CR /\ CharAt(text, i + 1) = LF
                THEN i + 2 ELSE i + 1

C17_LineEndings == []C17_AtEnd /\ [][C17_Step]_vars

(***************************************************************************)
(* Inputs of the record-level runs: raw records built from a few values    *)
(* per column; Absent marks a column the file does not have.               *)
(***************************************************************************)
Absent == <<Undefined>>

V_blank == <<SPACE, SPACE>>
V_AK == <<"A", "K">>
V_ak_padded == <<SPACE, "a", "k", SPACE>>
V_tx == <<"t", "x">>
V_CA == <<"C", "A">>
V_2025_01_01 == <<"2", "0", "2", "5", "-", "0", "1", "-", "0", "1">>
V_01_01_2025 == <<"0", "1", "/", "0", "1", "/", "2", "0", "2", "5">>
V_8_23_2025 == <<"8", "/", "2", "3", "/", "2", "0", "2", "5">>
V_2025_08_23 == <<"2", "0", "2", "5", "-", "0", "8", "-", "2", "3">>
V_2_30_2025 == <<"2", "/", "3", "0", "/", "2", "0", "2", "5">>
V_2018Z == <<"2", "0", "1", "8", "Z">>
V_918 == <<"9", "1", "8">>
V_2560Z == <<"2", "5", "6", "0", "Z">>
V_iso_aug ==
    <<"2", "0", "2", "5", "-", "0", "8", "-", "2", "3", "T", "2", "0", ":",
      "1", "8", ":", "0", "0", "Z">>
V_iso_jan ==
    <<"2", "0", "2", "5", "-", "0", "1", "-", "1", "5", "T", "0", "9", ":",
      "0", "5", ":", "0", "0", "Z">>
V_garbage == <<"n", "/", "a">>
V_hard_landing ==
    <<"H", "a", "r", "d", SPACE, "l", "a", "n", "d", "i", "n", "g", ".">>
V_tail_in_text ==
    <<"A", "t", SPACE, "N", "o", "m", "e", SPACE, "N", "1", "2", "3", "A",
      "B", SPACE, "l", "a", "n", "d", "e", "d", SPACE, "h", "a", "r", "d",
      ".">>
V_fallback ==
    <<"F", "a", "l", "l", "b", "a", "c", "k", SPACE, "t", "e", "x", "t">>
V_context == <<"(", "c", "o", "n", "t", "e", "x", "t", ")">>
V_N123 == <<"N", "1", "2", "3", "A", "B">>
V_N9 == <<"N", "9">>

\* the record with the columns of pairs whose value is not Absent
Rec(pairs) ==
    [k \in {p[1] : p \in {q \in pairs : q[2] # Absent}} |->
        (CHOOSE p \in pairs : p[1] = k)[2]]

BrowserZones == {ZoneUTC, ZoneNewYork}

AsmRecords ==
    { Rec({<<K.state, st>>, <<K.State, st2>>, <<K.report_date, rd>>,
           <<K.Report, rd2>>,
           <<K.event_date, IF iso = Absent THEN V_8_23_2025 ELSE Absent>>,
           <<K.event_time_z, IF iso = Absent THEN V_2018Z ELSE Absent>>,
           <<K.event_datetime_z, iso>>, <<K.raw_narrative, rn>>,
           <<K.narrative, nf>>,
           <<K.context_parens, IF nf = Absent THEN V_context ELSE Absent>>,
           <<K.aircraft_primary, ap>>,
           <<K.tail_number, IF ap = Absent THEN Absent ELSE V_N9>>}) :
        st \in {Absent, <<>>, V_ak_padded, V_tx},
        st2 \in {Absent, V_CA},
        rd \in {Absent, V_blank, V_2025_01_01},
        rd2 \in {Absent, V_01_01_2025},
        iso \in {Absent, V_iso_aug, V_garbage},
        rn \in {Absent, V_blank, V_hard_landing, V_tail_in_text},
        nf \in {Absent, V_fallback},
        ap \in {Absent, V_blank, V_N123} }
      \cup {Rec({})}

NoIncident == [none |-> TRUE]

AsmInit ==
    /\ rec \in AsmRecords
    /\ browserTZ \in BrowserZones
    /\ inc = NoIncident
    /\ apc = "input"

\* INCIDENTS = objects.map(toIncident), one record
Assemble ==
    /\ apc = "input"
    /\ inc' = toIncident(rec, browserTZ)
    /\ apc' = "assembled"
    /\ UNCHANGED <<rec, browserTZ, notAsm>>

AsmNext == Assemble


(***************************************************************************)
(* Field resolver and assembler claims                                     *)
(***************************************************************************)
\* the aliases of keys, by index, whose value is present and not blank
GoodAliases(r, keys) ==
    {k \in 1..Len(keys) : Present(r, keys[k]) /\ Trim(r[keys[k]]) # <<>>}

Least(S) == CHOOSE k \in S : \A j \in S : k <= j

\* the trimmed value of the first such alias, or the empty string
Resolved(r, keys) ==
    IF GoodAliases(r, keys) = {} THEN <<>>
    ELSE Trim(r[keys[Least(GoodAliases(r, keys))]])

ReportAliases == <<K.report_date, K.Report>>
StateAliases == <<K.state, K.State>>
TailAliases == <<K.aircraft_primary, K.tail_number, K.tail, K.n_number>>
NarrativeAliases == <<K.narrative, K.Narrative, K.context_parens, K.raw_text>>

\* C3: getAny gives the trimmed value of the first alias, in list order,
\* that is present and non-empty after trimming, and the empty string when
\* there is none; report_date = 2025-01-01 wins over Report = 01/01/2025,
\* and a blank earlier alias does not hide a later one.
C3_FieldResolver ==
    apc = "assembled" =>
        /\ inc._reportDate = Resolved(rec, ReportAliases)
        /\ inc._state = Resolved(rec, StateAliases)
        /\ (Present(rec, K.report_date) /\ rec[K.report_date] = V_2025_01_01
              /\ Present(rec, K.Report) /\ rec[K.Report] = V_01_01_2025)
             => inc._reportDate = V_2025_01_01
        /\ (Present(rec, K.report_date) /\ rec[K.report_date] = V_blank
              /\ Present(rec, K.Report))
             => inc._reportDate = rec[K.Report]
        /\ (Present(rec, K.state) /\ rec[K.state] = V_ak_padded)
             => inc._state = <<"a", "k">>

C3_Witness ==
    /\ apc = "assembled"
    /\ Present(rec, K.report_date) /\ rec[K.report_date] = V_blank
    /\ Present(rec, K.Report) /\ rec[K.Report] = V_01_01_2025
    /\ inc._reportDate = V_01_01_2025

\* C5 as stated: no attribute of an assembled incident is the empty string.
C5_NoEmptyAttribute ==
    apc = "assembled" =>
        /\ inc._state # <<>> /\ inc._tail # <<>> /\ inc._model # <<>>
        /\ inc._city # <<>> /\ inc._airport # <<>> /\ inc._eventType # <<>>
        /\ inc._phase # <<>> /\ inc._reportDate # <<>> /\ inc._pob # <<>>
        /\ inc._injuries # <<>> /\ inc._damage # <<>>
        /\ inc._form8020 # <<>> /\ inc._eventDate # <<>>
        /\ inc._eventTimeZ # <<>> /\ inc._narrative # <<>>

\* C5 amended: tail, model, POB, injuries, damage, form 8020-9 and narrative
\* are never empty (a resolved value or the placeholder); state, city,
\* airport, event type, phase, report date, event date and event time hold
\* the resolved value, which is the empty string when no alias resolves.
C5_Placeholders ==
    apc = "assembled" =>
        /\ inc._tail = Or(Resolved(rec, TailAliases), UnknownAircraft)
        /\ inc._tail # <<>> /\ inc._model # <<>> /\ inc._pob # <<>>
        /\ inc._injuries # <<>> /\ inc._damage # <<>>
        /\ inc._form8020 # <<>> /\ inc._narrative # <<>>
        /\ Resolved(rec, <<K.pob, K.POB>>) = <<>> => inc._pob = Unknown
        /\ inc._state = Resolved(rec, StateAliases)
        /\ inc._reportDate = Resolved(rec, ReportAliases)
        /\ inc._eventDate = Resolved(rec, <<K.event_date, K.date, K.Event_date>>)
        /\ inc._eventTimeZ
              = Resolved(rec, <<K.event_time_z, K.time_z, K.Event_time_z>>)
        /\ inc._city = Resolved(rec, <<K.city, K.location, K.loc_city>>)
        /\ inc._airport = Resolved(rec, <<K.airport_code, K.airport>>)
        /\ inc._eventType = Resolved(rec, <<K.event_type, K.Event_type, K.type>>)
        /\ inc._phase = Resolved(rec, <<K.phase, K.Phase>>)

C5_Witness ==
    /\ apc = "assembled"
    /\ DOMAIN rec = {}
    /\ inc._tail = UnknownAircraft /\ inc._pob = Unknown
    /\ inc._state = <<>> /\ inc._eventDate = <<>>

\* C6: a record whose state is empty or not mapped by tzForState has an
\* empty local-time label, whatever timestamp it carries.
C6_LocalTimeOmitted ==
    (apc = "assembled" /\ toUpperCase(inc._state) \notin MappedStates) =>
        inc._localTime = <<>>

(***************************************************************************)
(* Runs of the date helpers on one record: bestDateScore of the variant at *)
(* lines 602-933, getEventDate of the variant at lines 1-600.              *)
(***************************************************************************)
V_8_23_2025_padded ==
    <<SPACE, "8", "/", "2", "3", "/", "2", "0", "2", "5", SPACE>>
V_08_23_2025 == <<"0", "8", "/", "2", "3", "/", "2", "0", "2", "5">>

DateRecords ==
    { Rec({<<K.event_datetime_z, iso>>, <<K.event_date, ed>>,
           <<K.event_time_z, et>>, <<K.report_date, rd>>}) :
        iso \in {Absent, V_iso_jan, V_garbage},
        ed \in {Absent, V_8_23_2025, V_8_23_2025_padded, V_2025_08_23,
                V_2_30_2025},
        et \in {Absent, V_2018Z, V_918, V_2560Z, V_garbage},
        rd \in {Absent, V_2025_01_01, V_01_01_2025, V_garbage} }

NotDone == [done |-> FALSE]

DateInit ==
    /\ rec \in DateRecords
    /\ browserTZ \in BrowserZones
    /\ score = NotDone
    /\ evDate = NotDone

\* the sort key of render(), line 885
Score ==
    /\ ~score.done
    /\ score' = [done |-> TRUE, t |-> bestDateScore(TrimmedRecord(rec), browserTZ)]
    /\ UNCHANGED <<rec, browserTZ, evDate, notDate>>

\* getEventDate of the assembled incident, line 490
ResolveEventDate ==
    /\ ~evDate.done
    /\ evDate' = [done |-> TRUE,
                  d |-> getEventDate(toIncident(rec, browserTZ), browserTZ)]
    /\ UNCHANGED <<rec, browserTZ, score, notDate>>

DateNext == Score \/ ResolveEventDate

(***************************************************************************)
(* Date claims                                                             *)
(***************************************************************************)
\* a calendar date in either form the data uses
IsUsDate(s) ==
    /\ MatchesMDY(s)
    /\ MDYParts(s).mm \in 1..12
    /\ MDYParts(s).dd \in 1..DaysInMonth(MDYParts(s).yyyy, MDYParts(s).mm)

IsCalendarDate(s) == IsUsDate(s) \/ IsIsoDate(s)

CalendarDays(s) ==
    IF IsIsoDate(s) THEN IsoDateDays(s)
    ELSE DaysFromCivil(MDYParts(s).yyyy, MDYParts(s).mm, MDYParts(s).dd)

\* a Zulu clock time: HHMM or HMM, with or without a closing Z
ZuluDigits(s) ==
    IF Len(s) > 0 /\ s[Len(s)] = "Z" THEN SubSeq(s, 1, Len(s) - 1) ELSE s

IsZuluTime(s) ==
    /\ Len(ZuluDigits(s)) \in 3..4
    /\ AllDigits(ZuluDigits(s))
    /\ (Num(ZuluDigits(s)) \div 100) < 24
    /\ (Num(ZuluDigits(s)) % 100) < 60

ZuluMinutes(s) ==
    (Num(ZuluDigits(s)) \div 100) * 60 + (Num(ZuluDigits(s)) % 100)

\* C9: the result of bestDateScore is the instant of event_datetime_z when
\* that parses; otherwise the instant built from event_date and
\* event_time_z when they are a valid date and Zulu time; otherwise the
\* parsed report_date; otherwise 0.
C9_Priority ==
    score.done =>
        LET r == TrimmedRecord(rec)
            iso == DateParse(Field(r, K.event_datetime_z), browserTZ)
            ed == Field(r, K.event_date)
            et == Field(r, K.event_time_z)
            rd == DateParse(Field(r, K.report_date), browserTZ)
        IN  /\ iso.ok => score.t = iso.t
            /\ (~iso.ok /\ IsCalendarDate(ed) /\ IsZuluTime(et)) =>
                  score.t = CalendarDays(ed) * MinPerDay + ZuluMinutes(et)
            /\ (~iso.ok /\ (ed = <<>> \/ et = <<>>)) =>
                  score.t = IF rd.ok THEN rd.t ELSE 0

\* the priority order as it holds of the code: a date written M/D/YYYY
BestDateScorePriorityUsDate ==
    score.done =>
        LET r == TrimmedRecord(rec)
            iso == DateParse(Field(r, K.event_datetime_z), browserTZ)
            ed == Field(r, K.event_date)
            et == Field(r, K.event_time_z)
            rd == DateParse(Field(r, K.report_date), browserTZ)
        IN  /\ iso.ok => score.t = iso.t
            /\ (~iso.ok /\ IsUsDate(ed) /\ IsZuluTime(et)) =>
                  score.t = CalendarDays(ed) * MinPerDay + ZuluMinutes(et)
            /\ (~iso.ok /\ (~MatchesMDY(ed) \/ OnlyDigits(et) = <<>>)) =>
                  score.t = IF rd.ok THEN rd.t ELSE 0

\* M/D/YYYY for a date written YYYY-MM-DD
AsUsDate(s) ==
    SubSeq(s, 6, 7) \o <<"/">> \o SubSeq(s, 9, 10) \o <<"/">> \o SubSeq(s, 1, 4)

\* C10: an event date written YYYY-MM-DD is accepted, and resolved to the
\* same day as the equivalent M/D/YYYY string, by getEventDate and by
\* mmddyyyyToParts / zuluToUTCDate.
C10_BothDateForms ==
    (score.done /\ evDate.done /\ IsIsoDate(Trim(Field(rec, K.event_date)))) =>
        LET ed == Trim(Field(rec, K.event_date))
            us == [k \in DOMAIN rec |->
                      IF k = K.event_date THEN AsUsDate(ed) ELSE rec[k]]
        IN  /\ mmddyyyyToParts(ed).ok
            /\ bestDateScore(TrimmedRecord(rec), browserTZ)
                  = bestDateScore(TrimmedRecord(us), browserTZ)
            /\ evDate.d = getEventDate(toIncident(us, browserTZ), browserTZ)

(***************************************************************************)
(* The files the page is loaded with: the end-to-end fixture, the empty    *)
(* file, and every file of GenHeader and up to MaxRows lines of RowPool.   *)
(***************************************************************************)
MaxRows == 2

\* state,event_date,event_time_z,raw_narrative / AK,8/23/2025,2018Z,"Aircraft landed hard."
FixtureFile ==
    <<"s", "t", "a", "t", "e", COMMA, "e", "v", "e", "n", "t", "_", "d", "a",
      "t", "e", COMMA, "e", "v", "e", "n", "t", "_", "t", "i", "m", "e", "_",
      "z", COMMA, "r", "a", "w", "_", "n", "a", "r", "r", "a", "t", "i", "v",
      "e", LF, "A", "K", COMMA, "8", "/", "2", "3", "/", "2", "0", "2", "5",
      COMMA, "2", "0", "1", "8", "Z", COMMA, QUOTE, "A", "i", "r", "c", "r",
      "a", "f", "t", SPACE, "l", "a", "n", "d", "e", "d", SPACE, "h", "a",
      "r", "d", ".", QUOTE>>
V_aircraft_landed_hard ==
    <<"A", "i", "r", "c", "r", "a", "f", "t", SPACE, "l", "a", "n", "d", "e",
      "d", SPACE, "h", "a", "r", "d", ".">>

GenHeader ==
    <<"s", "t", "a", "t", "e", COMMA, "e", "v", "e", "n", "t", "_", "d", "a",
      "t", "e", COMMA, "e", "v", "e", "n", "t", "_", "t", "i", "m", "e", "_",
      "z", COMMA, "e", "v", "e", "n", "t", "_", "d", "a", "t", "e", "t", "i",
      "m", "e", "_", "z", COMMA, "r", "e", "p", "o", "r", "t", "_", "d", "a",
      "t", "e", COMMA, "r", "a", "w", "_", "n", "a", "r", "r", "a", "t", "i",
      "v", "e", COMMA, "n", "a", "r", "r", "a", "t", "i", "v", "e", COMMA,
      "e", "v", "e", "n", "t", "_", "t", "y", "p", "e">>
\* an Alaska event with a date and a Zulu time, and a quoted narrative
LineAK ==
    <<"A", "K", COMMA, "8", "/", "2", "3", "/", "2", "0", "2", "5", COMMA,
      "2", "0", "1", "8", "Z", COMMA, COMMA, COMMA, QUOTE, "L", "a", "n",
      "d", "e", "d", SPACE, "h", "a", "r", "d", ".", QUOTE, COMMA, COMMA,
      "I", "n", "c", "i", "d", "e", "n", "t">>
\* a record with nothing but its report date
LineReportOnly ==
    <<COMMA, COMMA, COMMA, COMMA, "2", "0", "2", "5", "-", "0", "1", "-",
      "0", "1", COMMA, COMMA, COMMA>>
\* an unmapped state, an ISO timestamp, a fallback narrative
LineISO ==
    <<"t", "x", COMMA, COMMA, COMMA, "2", "0", "2", "5", "-", "0", "1", "-",
      "1", "5", "T", "0", "9", ":", "0", "5", ":", "0", "0", "Z", COMMA,
      COMMA, COMMA, "F", "a", "l", "l", "b", "a", "c", "k", SPACE, "t", "e",
      "x", "t", COMMA, "A", "c", "c", "i", "d", "e", "n", "t">>
\* a date without a time, and a comma inside the quoted narrative
LineHI ==
    <<"H", "I", COMMA, "3", "/", "1", "0", "/", "2", "0", "2", "4", COMMA,
      COMMA, COMMA, COMMA, QUOTE, "G", "e", "a", "r", SPACE, "u", "p", COMMA,
      SPACE, "l", "a", "n", "d", "i", "n", "g", QUOTE, COMMA, COMMA, "I",
      "n", "c", "i", "d", "e", "n", "t">>
V_landed_hard ==
    <<"L", "a", "n", "d", "e", "d", SPACE, "h", "a", "r", "d", ".">>
Q_hard == <<"h", "a", "r", "d">>
Q_narrative == <<"N", "A", "R", "R", "A", "T", "I", "V", "E">>

RowPool == {LineAK, LineReportOnly, LineISO, LineHI}

FileOf(ls) == Join(<<GenHeader>> \o ls, <<LF>>)

CsvFiles ==
    {<<>>, FixtureFile} \cup {FileOf(ls) : ls \in SeqsUpTo(RowPool, MaxRows)}

\* what the user may type in the search box
Queries == {<<>>, Q_hard, Q_narrative}

Selects == {"state", "event", "phase", "sort", "year", "month"}

AllOnly == << <<>> >>

AppInit ==
    /\ pc = "fetching"
    /\ csvText \in CsvFiles
    /\ browserTZ \in BrowserZones
    /\ INCIDENTS = <<>>
    /\ FILTERED = <<>>
    /\ status = StatusInitial
    /\ rowCount = <<>>
    /\ results = <<>>
    /\ \E s \in {Newest, Oldest} :
          ctl = [search |-> <<>>, state |-> <<>>, event |-> <<>>,
                 phase |-> <<>>, sort |-> s, year |-> <<>>, month |-> <<>>]
    /\ opts = [state |-> AllOnly, event |-> AllOnly, phase |-> AllOnly,
               sort |-> <<Newest, Oldest>>, year |-> AllOnly,
               month |-> AllOnly]
    /\ hooked = FALSE

\* line 510
KeptRows(t) == SelectSeq(parseCsv(t), MoreThanOneCell)

\* init(), lines 506-507 and 542-545: fetch rejects, or the response is not
\* ok; the catch block writes the message and init returns
InitFetchFailedMutant ==
    /\ pc = "fetching"
    /\ pc' = "fetching"
    /\ status' \in {StatusFetchRejected, StatusFetchFailed}
    /\ UNCHANGED <<csvText, browserTZ, INCIDENTS, FILTERED, rowCount, results,
                   ctl, opts, hooked, notApp>>
InitFetchFailed ==
    /\ pc = "fetching"
    /\ pc' = "done"
    /\ status' \in {StatusFetchRejected, StatusFetchFailed}
    /\ UNCHANGED <<csvText, browserTZ, INCIDENTS, FILTERED, rowCount, results,
                   ctl, opts, hooked, notApp>>

\* init(), line 511: no row has more than one cell
InitCsvEmpty ==
    /\ pc = "fetching"
    /\ KeptRows(csvText) = <<>>
    /\ pc' = "done"
    /\ status' = StatusCsvEmpty
    /\ UNCHANGED <<csvText, browserTZ, INCIDENTS, FILTERED, rowCount, results,
                   ctl, opts, hooked, notApp>>

\* the effect of applyFilters() with the controls at c: FILTERED is
\* replaced, render() empties the results and writes the row count
ApplyFiltersRun(incidents, c) ==
    /\ FILTERED' = applyFilters(incidents, c, browserTZ)
    /\ results' = <<>>
    /\ rowCount' = <<Len(FILTERED')>>

\* init(), lines 510-545, when the file has a header row: INCIDENTS is
\* built, the dropdowns are refilled (which selects "All"), the listeners
\* are attached, and applyFilters() runs; the error render() throws, if any,
\* is caught at line 542
InitLoadedMutant ==
    /\ pc = "fetching"
    /\ \E rs \in {KeptRows(csvText)} :
          /\ rs # <<>>
          /\ \E incidents \in {IncidentsOf(rs, browserTZ)} :
                /\ INCIDENTS' = SubSeq(incidents, 1, Len(incidents) - 1)
                /\ opts' = [opts EXCEPT
                      !.year = YearOptions(incidents, browserTZ),
                      !.month = MonthOptions(incidents, browserTZ),
                      !.state = fillSelect(uniqueSorted(
                          [k \in 1..Len(incidents) |-> incidents[k]._state])),
                      !.event = fillSelect(uniqueSorted(
                          [k \in 1..Len(incidents) |->
                              incidents[k]._eventType])),
                      !.phase = fillSelect(uniqueSorted(
                          [k \in 1..Len(incidents) |-> incidents[k]._phase]))]
                /\ ctl' = [ctl EXCEPT !.year = <<>>, !.month = <<>>,
                                      !.state = <<>>, !.event = <<>>,
                                      !.phase = <<>>]
                /\ ApplyFiltersRun(incidents, ctl')
    /\ hooked' = TRUE
    /\ status' = IF renderThrows(FILTERED') THEN StatusRenderFailed
                 ELSE StatusLoaded
    /\ pc' = "done"
    /\ UNCHANGED <<csvText, browserTZ, notApp>>
InitLoaded ==
    /\ pc = "fetching"
    /\ \E rs \in {KeptRows(csvText)} :
          /\ rs # <<>>
          /\ \E incidents \in {IncidentsOf(rs, browserTZ)} :
                /\ INCIDENTS' = incidents
                /\ opts' = [opts EXCEPT
                      !.year = YearOptions(incidents, browserTZ),
                      !.month = MonthOptions(incidents, browserTZ),
                      !.state = fillSelect(uniqueSorted(
                          [k \in 1..Len(incidents) |-> incidents[k]._state])),
                      !.event = fillSelect(uniqueSorted(
                          [k \in 1..Len(incidents) |->
                              incidents[k]._eventType])),
                      !.phase = fillSelect(uniqueSorted(
                          [k \in 1..Len(incidents) |-> incidents[k]._phase]))]
                /\ ctl' = [ctl EXCEPT !.year = <<>>, !.month = <<>>,
                                      !.state = <<>>, !.event = <<>>,
                                      !.phase = <<>>]
                /\ ApplyFiltersRun(incidents, ctl')
    /\ hooked' = TRUE
    /\ status' = IF renderThrows(FILTERED') THEN StatusRenderFailed
                 ELSE StatusLoaded
    /\ pc' = "done"
    /\ UNCHANGED <<csvText, browserTZ, notApp>>

\* the "input" listener of the search box, line 531
OnSearchInput ==
    /\ hooked
    /\ \E q \in Queries \ {ctl.search} :
          /\ ctl' = [ctl EXCEPT !.search = q]
          /\ ApplyFiltersRun(INCIDENTS, ctl')
    /\ UNCHANGED <<pc, csvText, browserTZ, INCIDENTS, status, opts, hooked,
                   notApp>>

\* the "change" listener of a dropdown, lines 532-534
OnSelectChangeMutant ==
    /\ hooked
    /\ \E el \in Selects :
          \E v \in Range(opts[el]) \ {ctl[el]} :
             /\ ctl' = [ctl EXCEPT ![el] = v]
             /\ ApplyFiltersRun(INCIDENTS, ctl')
    /\ INCIDENTS' = FILTERED'
    /\ UNCHANGED <<pc, csvText, browserTZ, status, opts, hooked, notApp>>
OnSelectChange ==
    /\ hooked
    /\ \E el \in Selects :
          \E v \in Range(opts[el]) \ {ctl[el]} :
             /\ ctl' = [ctl EXCEPT ![el] = v]
             /\ ApplyFiltersRun(INCIDENTS, ctl')
    /\ UNCHANGED <<pc, csvText, browserTZ, INCIDENTS, status, opts, hooked,
                   notApp>>

Next ==
    \/ InitFetchFailed
    \/ InitCsvEmpty
    \/ InitLoaded
    \/ OnSearchInput
    \/ OnSelectChange

(***************************************************************************)
(* Claims about the loaded page                                            *)
(***************************************************************************)
NarrativeRule(it) ==
    /\ it._narrative # <<>>
    /\ it._tail # <<>>
    /\ it._narrative
          = Or(Resolved(it.row, <<K.raw_narrative>>),
               Or(Resolved(it.row, NarrativeAliases), NoNarrative))

\* C4: every incident of INCIDENTS and of FILTERED, after load and after
\* any filter, search or sort event, has a non-empty tail and a non-empty
\* narrative: raw_narrative when that is non-empty, else the first
\* non-empty of narrative, Narrative, context_parens, raw_text, else
\* exactly "No narrative provided."
C4_PlaceholderInvariant ==
    /\ \A k \in 1..Len(INCIDENTS) : NarrativeRule(INCIDENTS[k])
    /\ \A k \in 1..Len(FILTERED) :
          /\ NarrativeRule(FILTERED[k])
          /\ FILTERED[k] \in Range(INCIDENTS)

C4_Witness ==
    /\ hooked
    /\ ctl.search = Q_narrative
    /\ ctl.sort = Oldest
    /\ \E k \in 1..Len(FILTERED) :
          /\ FILTERED[k]._narrative = NoNarrative
          /\ FILTERED[k]._tail = UnknownAircraft
    /\ Len(FILTERED) < Len(INCIDENTS)
    /\ \E k \in 1..Len(INCIDENTS) : INCIDENTS[k]._narrative = V_fallback

EndsWith(s, suffix) ==
    Len(s) >= Len(suffix)
        /\ SubSeq(s, Len(s) - Len(suffix) + 1, Len(s)) = suffix

\* C7: the file with header state,event_date,event_time_z,raw_narrative and
\* the row AK,8/23/2025,2018Z,"Aircraft landed hard." loads as one incident
\* with state AK, that narrative, and a local-time label ending in AKDT or
\* AKST; and any incident with a mapped state, a valid event date and a
\* Zulu time has a local-time label though it has no ISO timestamp.
C7_EndToEnd ==
    (pc = "done" /\ hooked) =>
        /\ csvText = FixtureFile =>
              /\ Len(INCIDENTS) = 1
              /\ INCIDENTS[1]._state = StateAK
              /\ INCIDENTS[1]._narrative = V_aircraft_landed_hard
              /\ \/ EndsWith(INCIDENTS[1]._localTime, ZoneAnchorage.abbrDst)
                 \/ EndsWith(INCIDENTS[1]._localTime, ZoneAnchorage.abbrStd)
        /\ \A k \in 1..Len(INCIDENTS) :
              (/\ toUpperCase(INCIDENTS[k]._state) \in MappedStates
               /\ IsUsDate(INCIDENTS[k]._eventDate)
               /\ IsZuluTime(INCIDENTS[k]._eventTimeZ))
                  => INCIDENTS[k]._localTime # <<>>

\* an incident with a report date and no event date, time or timestamp
OnlyReportDate(it) ==
    /\ it._eventISO = <<>> /\ it._eventDate = <<>> /\ it._eventTimeZ = <<>>
    /\ it._reportDate # <<>>

\* the sort timestamp C8 gives an incident
ReportDateKey(it) ==
    IF OnlyReportDate(it)
    THEN Eval(DateParse(it._reportDate, browserTZ),
              LAMBDA d : IF d.ok THEN d.t ELSE 0)
    ELSE toDate(it, browserTZ)

\* C8: an incident with only its report date set is ordered in FILTERED by
\* that date: newest first or oldest first, as the sort control says.
C8_ReportDateOrdering ==
    hooked =>
        \A j, k \in 1..Len(FILTERED) :
            j < k =>
                Compare(ReportDateKey(FILTERED[j]), ReportDateKey(FILTERED[k]),
                        norm(ctl.sort)) <= 0

(***************************************************************************)
(* Claims about filtering                                                  *)
(***************************************************************************)
\* how many elements of s equal x
Occurrences(s, x) == Cardinality({k \in 1..Len(s) : s[k] = x})

\* q occurs in hay at some position
OccursIn(q, hay) ==
    \E k \in 1..(Len(hay) - Len(q) + 1) :
        \A n \in 1..Len(q) : hay[k + n - 1] = q[n]

\* the incident passes the state, event type, phase and search filters
PassesSelections(it) ==
    /\ Trim(ctl.state) # <<>> => it._state = Trim(ctl.state)
    /\ Trim(ctl.event) # <<>> => it._eventType = Trim(ctl.event)
    /\ Trim(ctl.phase) # <<>> => it._phase = Trim(ctl.phase)
    /\ Trim(ctl.search) # <<>> =>
          Eval(toLowerCase(Trim(ctl.search)),
               LAMBDA q : OccursIn(q, it._haystack))

\* the incident passes the year and month filters: it has an event date,
\* in the selected year and month of the browser's calendar
PassesYearMonth(it) ==
    (ctl.year # <<>> \/ ctl.month # <<>>) =>
        Eval(getEventDate(it, browserTZ), LAMBDA d :
            /\ d.ok
            /\ Eval(LocalCivil(browserTZ, d.t), LAMBDA civil :
                  /\ ctl.year # <<>> => StringOf(civil.year) = ctl.year
                  /\ ctl.month # <<>> =>
                        StringOf(civil.month - 1) = ctl.month))

\* FILTERED holds each incident that satisfies P as often as INCIDENTS
\* does, and no other
FilteredIsExactly(P(_)) ==
    \A x \in Range(INCIDENTS) \cup Range(FILTERED) :
        Occurrences(FILTERED, x)
            = IF P(x) THEN Occurrences(INCIDENTS, x) ELSE 0

\* C12 as stated: after every run of applyFilters, FILTERED holds exactly
\* the incidents of INCIDENTS whose state, event type and phase equal the
\* selected ones and whose haystack contains the trimmed lower-cased query.
C12_ExactlyTheSelected ==
    hooked => FilteredIsExactly(LAMBDA x : PassesSelections(x))

\* C12 amended: FILTERED holds exactly the incidents that pass the state,
\* event type, phase and search filters and, when a year or a month is
\* selected, have an event date in that year and month.
C12_ExactFilter ==
    hooked =>
        FilteredIsExactly(LAMBDA x : PassesSelections(x) /\ PassesYearMonth(x))

C12_Witness ==
    /\ hooked
    /\ ctl.search = Q_hard /\ ctl.event # <<>> /\ ctl.year # <<>>
    /\ Len(FILTERED) = 1 /\ Len(INCIDENTS) = 2
    /\ INCIDENTS[1] # INCIDENTS[2]

(***************************************************************************)
(* Claims about a load that fails                                          *)
(***************************************************************************)
FetchErrors == {StatusFetchRejected, StatusFetchFailed}

NothingLoaded ==
    /\ INCIDENTS = <<>> /\ FILTERED = <<>> /\ results = <<>>
    /\ rowCount = <<>> /\ ~hooked

\* C13: when the fetch rejects or the response is not ok, init ends with
\* one error message in the status element, INCIDENTS and FILTERED empty
\* and no card rendered; nothing fetches again, and the page stays in this
\* state.
C13_Failed ==
    /\ pc = "fetching" => status = StatusInitial
    /\ status \in FetchErrors => pc = "done" /\ NothingLoaded

C13_Stays ==
    /\ pc = "done" => pc' = "done"
    /\ status \in FetchErrors => UNCHANGED appVars

C13_FetchFailure == []C13_Failed /\ [][C13_Stays]_vars

C13_Witness ==
    /\ status = StatusFetchRejected
    /\ pc = "done"
    /\ csvText = FixtureFile
    /\ NothingLoaded

LoadErrors == FetchErrors \cup {StatusCsvEmpty, StatusRenderFailed}

\* the fetch gave the text of the file
Fetched == pc = "done" /\ status \notin FetchErrors

\* C14: when the fetched file parses to no row, or to a header row and no
\* data row, init reports a load error in the status element, and never a
\* successful load of zero incidents.
C14_EmptyFileError ==
    (Fetched /\ Len(parseCsv(csvText)) <= 1) =>
        /\ status \in LoadErrors
        /\ status # StatusLoaded
        /\ ~hooked

(***************************************************************************)
(* Files of edge cases: an event before 1970, date and time values that    *)
(* are not dates, a line of nothing but commas, a blank line, and a last   *)
(* line of white space without a final newline.                            *)
(***************************************************************************)
LineOld ==
    <<"A", "K", COMMA, COMMA, COMMA, "1", "9", "6", "9", "-", "0", "7", "-",
      "2", "0", "T", "2", "0", ":", "1", "7", ":", "0", "0", "Z", COMMA,
      COMMA, COMMA, COMMA, "I", "n", "c", "i", "d", "e", "n", "t">>
LineBad ==
    <<"A", "K", COMMA, "n", "/", "a", COMMA, "s", "o", "o", "n", COMMA, "g",
      "a", "r", "b", "a", "g", "e", COMMA, COMMA, COMMA, COMMA, "I", "n",
      "c", "i", "d", "e", "n", "t">>
LineCommas == <<COMMA, COMMA, COMMA, COMMA, COMMA, COMMA, COMMA>>
LineEmpty == <<>>

EdgePool == {LineOld, LineBad, LineCommas, LineEmpty}

\* what follows the last line: nothing, or a line of spaces without newline
EdgeTails == {<<>>, <<LF, SPACE, SPACE>>}

\* headers with a name that occurs twice and with white space around a
\* name, and lines with fewer cells than headers and with more
HeaderStateCityState ==
    <<"s", "t", "a", "t", "e", COMMA, "c", "i", "t", "y", COMMA, "s", "t",
      "a", "t", "e">>
HeaderPadded ==
    <<"s", "t", "a", "t", "e", COMMA, SPACE, "c", "i", "t", "y", SPACE>>
HeaderTwice ==
    <<"c", "i", "t", "y", COMMA, "s", "t", "a", "t", "e", COMMA, "c", "i",
      "t", "y", COMMA, "s", "t", "a", "t", "e">>
LineTwoCells == <<"A", "K", COMMA, "N", "o", "m", "e">>
LineThreeCells == <<"H", "I", COMMA, "H", "i", "l", "o", COMMA, "C", "A">>
LineFiveCells ==
    <<"T", "X", COMMA, "W", "a", "c", "o", COMMA, "N", "V", COMMA, "E", "l",
      "k", "o", COMMA, "x">>
V_Nome == <<"N", "o", "m", "e">>
V_NV == <<"N", "V">>

ZipHeaders == {HeaderStateCityState, HeaderPadded, HeaderTwice}

ZipLines == {LineTwoCells, LineThreeCells, LineFiveCells}

ZipFiles ==
    {Join(<<h>> \o ls, <<LF>>) :
        h \in ZipHeaders, ls \in SeqsUpTo(ZipLines, MaxRows)}

\* files with no row at all: empty, blank lines only, white space only
BlankFiles == {<<>>, <<LF, LF>>, <<SPACE, SPACE>>}

EdgeFiles ==
    BlankFiles \cup ZipFiles \cup
    {FileOf(ls) \o tl : ls \in SeqsUpTo(EdgePool, MaxRows), tl \in EdgeTails}

EdgeInit ==
    /\ pc = "fetching"
    /\ csvText \in EdgeFiles
    /\ browserTZ \in BrowserZones
    /\ INCIDENTS = <<>>
    /\ FILTERED = <<>>
    /\ status = StatusInitial
    /\ rowCount = <<>>
    /\ results = <<>>
    /\ \E s \in {Newest, Oldest} :
          ctl = [search |-> <<>>, state |-> <<>>, event |-> <<>>,
                 phase |-> <<>>, sort |-> s, year |-> <<>>, month |-> <<>>]
    /\ opts = [state |-> AllOnly, event |-> AllOnly, phase |-> AllOnly,
               sort |-> <<Newest, Oldest>>, year |-> AllOnly,
               month |-> AllOnly]
    /\ hooked = FALSE

(***************************************************************************)
(* Claims about dates that do not parse                                    *)
(***************************************************************************)
\* the incident carries a date or time value, and none that is a date
Malformed(it) ==
    /\ it._eventISO # <<>> \/ it._eventDate # <<>> \/ it._eventTimeZ # <<>>
    /\ ~DateParse(it._eventISO, browserTZ).ok
    /\ ~IsCalendarDate(it._eventDate)

\* the incident has an event instant
HasInstant(it) ==
    DateParse(it._eventISO, browserTZ).ok \/ IsUsDate(it._eventDate)

NoFilters ==
    /\ ctl.search = <<>> /\ ctl.state = <<>> /\ ctl.event = <<>>
    /\ ctl.phase = <<>> /\ ctl.year = <<>> /\ ctl.month = <<>>

\* C11: a record whose date and time values do not parse is not dropped:
\* its sort key is 0, it is in FILTERED when no filter is set, and under the
\* newest-first order it comes after every record that has an event
\* instant, instants before 1970 included.
C11_MalformedDate ==
    hooked =>
        /\ \A k \in 1..Len(INCIDENTS) :
              Malformed(INCIDENTS[k]) =>
                  /\ toDate(INCIDENTS[k], browserTZ) = 0
                  /\ NoFilters => INCIDENTS[k] \in Range(FILTERED)
        /\ norm(ctl.sort) # Oldest =>
              \A j, k \in 1..Len(FILTERED) :
                  (HasInstant(FILTERED[j]) /\ Malformed(FILTERED[k])) => j < k

\* every cell of the raw record is empty or white space
AllBlank(r) == \A h \in DOMAIN r : Trim(r[h]) = <<>>

\* C15: no row whose cells are all empty or white space (a blank line, a
\* line of only commas, a last line of white space without a final
\* newline) becomes a data row or an incident.
C15_EmptyRowsDropped ==
    hooked => \A k \in 1..Len(INCIDENTS) : ~AllBlank(INCIDENTS[k].row)

\* the cell of row r under column j, or the empty string past its end
CellOr(r, j) == IF j <= Len(r) THEN r[j] ELSE <<>>

\* the raw record obj is row r zipped against the header names hs
ZippedByPosition(obj, hs, r) ==
    /\ DOMAIN obj = {hs[j] : j \in 1..Len(hs)}
    /\ \A j \in 1..Len(hs) :
          (\A m \in (j + 1)..Len(hs) : hs[m] # hs[j]) =>
              obj[hs[j]] = CellOr(r, j)

\* C19: each data row is zipped against the headers by position: one key
\* per distinct header name, the value of header i is cell i, a missing
\* trailing cell is the empty string, a cell beyond the headers is under no
\* key, and of two columns of one name the later one's value is kept.
C19_ZipByPosition ==
    hooked =>
        Eval(KeptRows(csvText), LAMBDA rs :
            /\ Len(INCIDENTS) = Len(rs) - 1
            /\ \A k \in 1..Len(INCIDENTS) :
                  ZippedByPosition(INCIDENTS[k].row,
                                   [j \in 1..Len(rs[1]) |-> Trim(rs[1][j])],
                                   rs[k + 1]))

C19_Witness ==
    /\ hooked
    /\ Len(INCIDENTS) = 2
    /\ DOMAIN INCIDENTS[1].row = {K.state, K.city}
    /\ INCIDENTS[1].row[K.state] = <<>> /\ INCIDENTS[1]._city = V_Nome
    /\ INCIDENTS[2].row[K.state] = V_NV /\ INCIDENTS[2]._state = V_NV

(***************************************************************************)
(* The download button (src/app.js 548-598)                                *)
(***************************************************************************)
\* nothing has been downloaded
NoExport == [clicked |-> FALSE]

\* a sequence without its repeated elements, each kept where it first is
RECURSIVE FirstOccurrences(_)
FirstOccurrences(s) ==
    IF s = <<>> THEN <<>>
    ELSE Eval(FirstOccurrences(SubSeq(s, 1, Len(s) - 1)), LAMBDA front :
            IF s[Len(s)] \in Range(front) THEN front
            ELSE Append(front, s[Len(s)]))

\* Object.keys of a raw record: the columns in the order lines 516-520
\* inserted them, a repeated header staying where it first was
ObjectKeys(rs) ==
    FirstOccurrences([k \in 1..Len(rs[1]) |-> norm(rs[1][k])])

\* lines 555-564
buildCsvFromObjects(objs, cols) ==
    IF objs = <<>> THEN <<>>
    ELSE Join(<<Join([c \in 1..Len(cols) |-> csvEscape(cols[c])], <<COMMA>>)>>
              \o [k \in 1..Len(objs) |->
                    Join([c \in 1..Len(cols) |-> csvEscape(objs[k][cols[c]])],
                         <<COMMA>>)],
              <<LF>>)

\* lines 583-592: the rows the handler exports, each without its "_" fields
exportRowsOf(filtered, incidents) ==
    Eval(IF filtered # <<>> THEN filtered ELSE incidents, LAMBDA chosen :
        [k \in 1..Len(chosen) |-> chosen[k].row])

\* the "click" listener of the download button, lines 581-598; it is
\* attached when the script is evaluated, so it runs at any time
OnDownloadClick ==
    /\ \E exportRows \in {exportRowsOf(FILTERED, INCIDENTS)} :
          exported' =
              [clicked |-> TRUE, rows |-> exportRows,
               csv |-> IF exportRows = <<>> THEN <<>>
                       ELSE buildCsvFromObjects(exportRows,
                                ObjectKeys(KeptRows(csvText)))]
    /\ UNCHANGED <<appVars, csvVars, asmVars, dateVars, timer, pending,
                   renders>>

\* the page with its download button
ExportNext == Next \/ OnDownloadClick

\* the files the page is loaded with when the button is exercised
ExportFiles ==
    {<<>>} \cup {FileOf(ls) : ls \in SeqsUpTo({LineAK, LineHI}, MaxRows)}

\* the page before init() resumes, served one of the given files
PageStart(files) ==
    /\ pc = "fetching"
    /\ csvText \in files
    /\ browserTZ \in BrowserZones
    /\ INCIDENTS = <<>>
    /\ FILTERED = <<>>
    /\ status = StatusInitial
    /\ rowCount = <<>>
    /\ results = <<>>
    /\ \E s \in {Newest, Oldest} :
          ctl = [search |-> <<>>, state |-> <<>>, event |-> <<>>,
                 phase |-> <<>>, sort |-> s, year |-> <<>>, month |-> <<>>]
    /\ opts = [state |-> AllOnly, event |-> AllOnly, phase |-> AllOnly,
               sort |-> <<Newest, Oldest>>, year |-> AllOnly,
               month |-> AllOnly]
    /\ hooked = FALSE

ExportInit == PageStart(ExportFiles)

\* C21: every click on the download button exports exactly the rows of
\* FILTERED, in FILTERED's order; when the filters match no incident the
\* export has no data rows
C21_ExportIsFiltered ==
    [][exported' # exported =>
          /\ exported'.rows = [k \in 1..Len(FILTERED) |-> FILTERED[k].row]
          /\ FILTERED = <<>> => exported'.rows = <<>>]_vars


(***************************************************************************)
(* The variant at src/unnamed/part_000 lines 370-812: the listeners are    *)
(* wired before init() runs, and render() writes the status.  It uses the  *)
(* variables of the page: allRows is INCIDENTS, filteredRows is FILTERED.  *)
(***************************************************************************)
\* column names the variants read and the page above does not
K0 ==
    [form_8020_9 |->
        <<"f", "o", "r", "m", "_", "8", "0", "2", "0", "_", "9">>,
     airport_name |->
        <<"a", "i", "r", "p", "o", "r", "t", "_", "n", "a", "m", "e">>,
     facility |->
        <<"f", "a", "c", "i", "l", "i", "t", "y">>,
     n_numbers |->
        <<"n", "_", "n", "u", "m", "b", "e", "r", "s">>,
     aircraft_1_nnumber |->
        <<"a", "i", "r", "c", "r", "a", "f", "t", "_", "1", "_", "n", "n",
          "u", "m", "b", "e", "r">>,
     event_datetime_utc |->
        <<"e", "v", "e", "n", "t", "_", "d", "a", "t", "e", "t", "i", "m",
          "e", "_", "u", "t", "c">>,
     event_time_utc |->
        <<"e", "v", "e", "n", "t", "_", "t", "i", "m", "e", "_", "u", "t",
          "c">>,
     event_dt_z |->
        <<"e", "v", "e", "n", "t", "_", "d", "t", "_", "z">>,
     eventDate |->
        <<"e", "v", "e", "n", "t", "D", "a", "t", "e">>,
     eventTimeZ |->
        <<"e", "v", "e", "n", "t", "T", "i", "m", "e", "Z">>,
     context |->
        <<"c", "o", "n", "t", "e", "x", "t">>,
     description |->
        <<"d", "e", "s", "c", "r", "i", "p", "t", "i", "o", "n">>]

\* lines 389-395
pick(r, keys) == getAnyLoop(r, keys)

\* lines 406-452: a carriage return outside quotes is skipped, a line feed
\* ends the row whatever it holds
parseCsv_part000(text0) ==
    LET \* lines 414-443: one iteration of the for loop, its i++ included
        Step(t, p) ==
            LET c == CharAt(t, p.i)
            IN  IF p.inQuotes
                THEN IF c = QUOTE /\ CharAt(t, p.i + 1) = QUOTE
                     THEN [p EXCEPT !.cur = Append(@, QUOTE), !.i = @ + 2]
                     ELSE IF c = QUOTE
                     THEN [p EXCEPT !.inQuotes = FALSE, !.i = @ + 1]
                     ELSE [p EXCEPT !.cur = Append(@, c), !.i = @ + 1]
                ELSE IF c = QUOTE
                THEN [p EXCEPT !.inQuotes = TRUE, !.i = @ + 1]
                ELSE IF c = COMMA
                THEN [p EXCEPT !.row = Append(@, p.cur), !.cur = <<>>,
                               !.i = @ + 1]
                ELSE IF c = LF
                THEN [p EXCEPT !.rows = Append(@, Append(p.row, p.cur)),
                               !.row = <<>>, !.cur = <<>>, !.i = @ + 1]
                ELSE IF c = CR THEN [p EXCEPT !.i = @ + 1]
                ELSE [p EXCEPT !.cur = Append(@, c), !.i = @ + 1]
        \* at most n iterations from p
        RECURSIVE Run(_, _, _)
        Run(t, p, n) ==
            IF n = 0 \/ p.i >= Len(t) THEN p
            ELSE IF n = 1 THEN Step(t, p)
            ELSE Eval(Run(t, p, n \div 2),
                      LAMBDA q : Run(t, q, n - (n \div 2)))
        \* lines 446-449
        Flushed(p) ==
            IF p.cur # <<>> \/ p.row # <<>>
            THEN Append(p.rows, Append(p.row, p.cur)) ELSE p.rows
    IN  Eval(Run(text0, PStart, Len(text0)), LAMBDA p : Flushed(p))

\* lines 463-467: the object of one line, a header-less column named col_c
RECURSIVE toObjectLoop(_, _, _, _)
toObjectLoop(headers, line, c, obj) ==
    IF c > Len(headers) THEN obj
    ELSE toObjectLoop(headers, line, c + 1,
             ((IF headers[c] # <<>> THEN headers[c]
               ELSE <<"c", "o", "l", "_">> \o StringOf(c - 1))
                 :> (IF c <= Len(line) THEN Trim(line[c]) ELSE <<>>)) @@ obj)

\* lines 454-471
toObjects(table) ==
    IF table = <<>> THEN <<>>
    ELSE Eval([c \in 1..Len(table[1]) |-> Trim(table[1][c])], LAMBDA headers :
         Eval(SelectSeq(Tail(table),
                        LAMBDA line : \E c \in 1..Len(line) :
                                         Trim(line[c]) # <<>>),
              LAMBDA lines :
                 [k \in 1..Len(lines) |->
                     toObjectLoop(headers, lines[k], 1, <<>>)]))

\* new Date(`${dStr} 00:00:00`): local midnight of a M/D/YYYY or YYYY-MM-DD
\* day, and NaN for anything else
LocalMidnight(dStr, z) ==
    IF MatchesMDY(dStr) THEN DateParse(dStr, z)
    ELSE IF IsIsoDate(dStr)
    THEN Valid(LocalToUTC(z, IsoDateDays(dStr) * MinPerDay))
    ELSE Invalid

\* String.prototype.replace("Z", ""): the first Z goes
RECURSIVE DropFirstZ(_)
DropFirstZ(s) ==
    IF s = <<>> THEN <<>>
    ELSE IF Head(s) = "Z" THEN Tail(s)
    ELSE <<Head(s)>> \o DropFirstZ(Tail(s))

\* lines 476-503
parseZDate(r, z) ==
    Eval(pick(r, <<K.event_datetime_z, K0.event_datetime_utc,
                   K0.event_time_utc, K0.event_dt_z>>), LAMBDA iso :
    Eval(IF iso # <<>> THEN DateParse(iso, z) ELSE Invalid, LAMBDA d :
        IF d.ok THEN d
        ELSE
    Eval(pick(r, <<K.event_date, K.date, K0.eventDate>>), LAMBDA dStr :
    Eval(pick(r, <<K.event_time_z, K.time_z, K0.eventTimeZ>>), LAMBDA tStr :
        IF dStr = <<>> \/ tStr = <<>> THEN Invalid
        ELSE
    Eval(Trim(DropFirstZ(toUpperCase(tStr))), LAMBDA cleaned :
    Eval(LocalMidnight(dStr, z), LAMBDA date :
        IF ~date.ok \/ Len(cleaned) < 4 THEN Invalid
        ELSE
    Eval(SubSeq(cleaned, 1, 2) \o <<":">> \o SubSeq(cleaned, 3, 4),
         LAMBDA clock :
    Eval(LocalCivil(z, date.t), LAMBDA civil :
        IF ~IsIsoClock(clock) THEN Invalid
        ELSE Valid(DaysFromCivil(civil.year, civil.month, civil.day)
                      * MinPerDay + IsoClockMinutes(clock))))))))))

\* lines 548-557
getNarrative(r) ==
    pick(r, <<K.raw_narrative, K.narrative, K.context_parens, K0.context,
              K0.description>>)

\* lines 674-685: the search haystack of a row
hayOf(r) ==
    Eval(<<getNarrative(r), pick(r, <<K.city>>),
           pick(r, <<K0.airport_name>>), pick(r, <<K.airport_code>>),
           pick(r, <<K0.facility>>), pick(r, <<K.aircraft_primary>>),
           pick(r, <<K.aircraft_primary_model>>), pick(r, <<K0.n_numbers>>),
           pick(r, <<K0.aircraft_1_nnumber>>)>>,
         LAMBDA parts : toLowerCase(Join(parts, <<SPACE, "|", SPACE>>)))

\* lines 657-698: the new value of filteredRows
applyFilters_part000(allRows, c, z) ==
    Eval(toLowerCase(Trim(c.search)), LAMBDA q :
    Eval(SelectSeq(allRows, LAMBDA r :
            /\ c.state # <<>> => pick(r, <<K.state>>) = c.state
            /\ c.event # <<>> => pick(r, <<K.event_type, K.type>>) = c.event
            /\ c.phase # <<>> => pick(r, <<K.phase>>) = c.phase
            /\ q # <<>> => Includes(hayOf(r), q)),
         LAMBDA kept :
    Eval([k \in 1..Len(kept) |->
             [key |-> Eval(parseZDate(kept[k], z),
                           LAMBDA d : IF d.ok THEN d.t ELSE 0),
              it |-> kept[k]]],
         LAMBDA keyed :
    Eval(SortKeyed(keyed, c.sort),
         LAMBDA sorted : [k \in 1..Len(sorted) |-> sorted[k].it]))))

\* the ellipsis character of line 783 is written as three dots
StatusLoading == "Loading ./data/incidents.csv..."
StatusNotOk == "Error: Unable to load CSV (404)"
StatusRejected == "Error: Failed to fetch"

\* the card render() shows when no row is left
NoResultsCard == "No results match your filters."

\* applyFilters() and the render() it ends with, lines 657-770: the results
\* are rebuilt, and the row count and the status are written
WiredApplyFilters(allRows, c) ==
    /\ FILTERED' = applyFilters_part000(allRows, c, browserTZ)
    /\ results' = IF FILTERED' = <<>> THEN <<NoResultsCard>> ELSE FILTERED'
    /\ rowCount' = <<Len(allRows)>>
    /\ status' = StatusLoaded

WiredFiles ==
    {<<>>} \cup {FileOf(ls) : ls \in SeqsUpTo({LineAK, LineISO}, MaxRows)}

\* lines 810-811 and 783: wireEvents() has run and init() is at its await
WiredInit ==
    /\ pc = "fetching"
    /\ csvText \in WiredFiles
    /\ browserTZ \in BrowserZones
    /\ INCIDENTS = <<>>
    /\ FILTERED = <<>>
    /\ status = StatusLoading
    /\ rowCount = <<>>
    /\ results = <<>>
    /\ \E s \in {Newest, Oldest} :
          ctl = [search |-> <<>>, state |-> <<>>, event |-> <<>>,
                 phase |-> <<>>, sort |-> s]
    /\ opts = [state |-> AllOnly, event |-> AllOnly, phase |-> AllOnly,
               sort |-> <<Newest, Oldest>>]
    /\ hooked = TRUE

\* line 785: the response arrives and is ok; init() waits for its body
WiredFetched ==
    /\ pc = "fetching"
    /\ pc' = "reading"
    /\ UNCHANGED <<csvText, browserTZ, INCIDENTS, FILTERED, status, rowCount,
                   results, ctl, opts, hooked, notApp>>

\* lines 785-788 and 804-807: the fetch or the read of the body rejects, or
\* the response is not ok; the catch block writes the message
WiredFailed ==
    /\ pc \in {"fetching", "reading"}
    /\ pc' = "failed"
    /\ status' \in IF pc = "fetching" THEN {StatusRejected, StatusNotOk}
                   ELSE {StatusRejected}
    /\ UNCHANGED <<csvText, browserTZ, INCIDENTS, FILTERED, rowCount, results,
                   ctl, opts, hooked, notApp>>

\* lines 788-803: the body arrives; allRows is built, the dropdowns are
\* refilled (which selects "All"), "Loaded OK" is written and applyFilters()
\* runs, whose render() writes the status again
WiredLoaded ==
    /\ pc = "reading"
    /\ pc' = "loaded"
    /\ \E allRows \in {toObjects(parseCsv_part000(csvText))} :
          /\ INCIDENTS' = allRows
          /\ opts' = [opts EXCEPT
                !.state = fillSelect(uniqueSorted(
                    [k \in 1..Len(allRows) |-> pick(allRows[k], <<K.state>>)])),
                !.event = fillSelect(uniqueSorted(
                    [k \in 1..Len(allRows) |->
                        pick(allRows[k], <<K.event_type, K.type>>)])),
                !.phase = fillSelect(uniqueSorted(
                    [k \in 1..Len(allRows) |->
                        pick(allRows[k], <<K.phase>>)]))]
          /\ ctl' = [ctl EXCEPT !.state = <<>>, !.event = <<>>,
                                !.phase = <<>>]
          /\ WiredApplyFilters(allRows, ctl')
    /\ UNCHANGED <<csvText, browserTZ, hooked, notApp>>

\* lines 772-779: the "input" listener of the search box; wireEvents()
\* attached it before init() was called
WiredOnSearchInput ==
    /\ hooked
    /\ \E q \in Queries \ {ctl.search} :
          /\ ctl' = [ctl EXCEPT !.search = q]
          /\ WiredApplyFilters(INCIDENTS, ctl')
    /\ UNCHANGED <<pc, csvText, browserTZ, INCIDENTS, opts, hooked, notApp>>

\* lines 772-779: the "change" listener of a dropdown
WiredOnSelectChange ==
    /\ hooked
    /\ \E el \in {"state", "event", "phase", "sort"} :
          \E v \in Range(opts[el]) \ {ctl[el]} :
             /\ ctl' = [ctl EXCEPT ![el] = v]
             /\ WiredApplyFilters(INCIDENTS, ctl')
    /\ UNCHANGED <<pc, csvText, browserTZ, INCIDENTS, opts, hooked, notApp>>

WiredNext ==
    \/ WiredFetched
    \/ WiredFailed
    \/ WiredLoaded
    \/ WiredOnSearchInput
    \/ WiredOnSelectChange

\* the status is a "Loaded OK" text / an error text
SuccessShown == status = StatusLoaded
ErrorShown == status \in {StatusRejected, StatusNotOk}

\* C25: the status shows a "Loaded OK" text only when the file was fetched
\* and parsed, and once the load error is shown no filter event puts a
\* success text in its place
C25_SuccessOnlyAfterLoad ==
    /\ [](SuccessShown => pc = "loaded")
    /\ [][ErrorShown => ~SuccessShown']_vars

(***************************************************************************)
(* The variant at src/app.js lines 602-933: the listeners start a timer    *)
(* of 80 ms, and render() runs when the timer does.  records is INCIDENTS  *)
(* here, and the results hold the records render() made cards of.          *)
(***************************************************************************)
\* lines 622-671.  The BOM that line 659 strips is white space to trim(),
\* which line 658 has already applied.
parseCSV_622(text0) ==
    LET \* lines 629-649: one iteration of the for loop, its i++ included
        Step(tx, p) ==
            LET c == CharAt(tx, p.i)
                next == CharAt(tx, p.i + 1)
            IN  IF c = QUOTE
                THEN IF p.inQuotes /\ next = QUOTE
                     THEN [p EXCEPT !.cur = Append(@, QUOTE), !.i = @ + 2]
                     ELSE [p EXCEPT !.inQuotes = ~@, !.i = @ + 1]
                ELSE IF ~p.inQuotes /\ c = COMMA
                THEN [p EXCEPT !.row = Append(@, p.cur), !.cur = <<>>,
                               !.i = @ + 1]
                ELSE IF ~p.inQuotes /\ c \in {LF, CR}
                THEN [p EXCEPT
                        !.rows = IF p.row = <<>> /\ p.cur = <<>> THEN @
                                 ELSE Append(@, Append(p.row, p.cur)),
                        !.row = <<>>, !.cur = <<>>,
                        !.i = IF c = CR /\ next = LF THEN @ + 2 ELSE @ + 1]
                ELSE [p EXCEPT !.cur = Append(@, c), !.i = @ + 1]
        \* at most n iterations from p
        RECURSIVE Run(_, _, _)
        Run(tx, p, n) ==
            IF n = 0 \/ p.i >= Len(tx) THEN p
            ELSE IF n = 1 THEN Step(tx, p)
            ELSE Eval(Run(tx, p, n \div 2),
                      LAMBDA q : Run(tx, q, n - (n \div 2)))
        \* lines 651-652
        Flushed(p) ==
            IF p.row = <<>> /\ p.cur = <<>> THEN p.rows
            ELSE Append(p.rows, Append(p.row, p.cur))
        \* lines 654-670
        Objects(rs) ==
            IF rs = <<>> THEN <<>>
            ELSE Eval([c \in 1..Len(rs[1]) |-> Trim(rs[1][c])], LAMBDA headers :
                    [k \in 1..(Len(rs) - 1) |->
                        RowObject(headers,
                            [c \in 1..Len(rs[k + 1]) |-> Trim(rs[k + 1][c])])])
    IN  Eval(Run(text0, PStart, Len(text0)),
             LAMBDA p : Eval(Flushed(p), LAMBDA rs : Objects(rs)))

\* the stable sort of line 675: x goes after the strings that do not sort
\* after it when case is ignored
RECURSIVE InsertBase(_, _)
InsertBase(x, ss) ==
    IF ss = <<>> THEN <<x>>
    ELSE IF PrimaryCompare(ss[Len(ss)], x) <= 0 THEN Append(ss, x)
    ELSE Append(InsertBase(x, SubSeq(ss, 1, Len(ss) - 1)), ss[Len(ss)])

RECURSIVE SortBase(_)
SortBase(ss) ==
    IF ss = <<>> THEN <<>>
    ELSE InsertBase(ss[Len(ss)], SortBase(SubSeq(ss, 1, Len(ss) - 1)))

\* lines 674-678
uniqSorted(list) == SortBase(FirstOccurrences(NonEmpty(list)))

\* lines 768-789
matchesSearch(r, q) ==
    q = <<>> \/
    Eval(<<Field(r, K.raw_narrative), Field(r, K.city), Field(r, K.state),
           Field(r, K.airport_code), Field(r, K0.facility),
           Field(r, K.aircraft_primary), Field(r, K.aircraft_primary_model),
           Field(r, K0.n_numbers), Field(r, K.phase), Field(r, K.event_type),
           Field(r, K.pob), Field(r, K.injuries), Field(r, K.damage),
           Field(r, K0.form_8020_9), Field(r, K.report_date)>>,
         LAMBDA parts :
            Includes(toLowerCase(Join(NonEmpty(parts), <<SPACE>>)), q))

\* lines 869-893: the records render() makes cards of, in their order, with
\* the controls at c
render(allRecords, c, z) ==
    Eval(toLowerCase(Trim(c.search)), LAMBDA q :
    Eval(SelectSeq(allRecords, LAMBDA r :
            /\ c.state # <<>> => Field(r, K.state) = c.state
            /\ c.event # <<>> => Field(r, K.event_type) = c.event
            /\ c.phase # <<>> => Field(r, K.phase) = c.phase
            /\ matchesSearch(r, q)),
         LAMBDA kept :
    Eval([k \in 1..Len(kept) |->
             [key |-> bestDateScore(kept[k], z), it |-> kept[k]]],
         LAMBDA keyed :
    Eval(SortKeyed(keyed, IF c.sort = <<>> THEN Newest ELSE c.sort),
         LAMBDA sorted : [k \in 1..Len(sorted) |-> sorted[k].it]))))

\* line 916: the delay of the timer, in milliseconds
Delay == 80

StatusLoadingData == "Loading data..."
StatusHttpError == "Error: Failed to load ./data/incidents.csv: 404 Not Found"
StatusTypeError == "Error: Failed to fetch"

DebounceFiles ==
    {FileOf(<<LineAK>>), FileOf(<<LineAK, LineHI>>),
     FileOf(<<LineHI, LineISO>>)}

\* lines 928-933 and 896-900: init() is at its await
DebounceInit ==
    /\ pc = "fetching"
    /\ csvText \in DebounceFiles
    /\ browserTZ \in BrowserZones
    /\ INCIDENTS = <<>>
    /\ FILTERED = <<>>
    /\ status = StatusLoadingData
    /\ rowCount = <<>>
    /\ results = <<>>
    /\ \E srt \in {Newest, Oldest} :
          ctl = [search |-> <<>>, state |-> <<>>, event |-> <<>>,
                 phase |-> <<>>, sort |-> srt]
    /\ opts = [state |-> AllOnly, event |-> AllOnly, phase |-> AllOnly,
               sort |-> <<Newest, Oldest>>]
    /\ hooked = FALSE
    /\ exported = NoExport
    /\ timer = 0
    /\ pending = <<>>
    /\ renders = 0

\* lines 900-902 and 929-932: the fetch rejects or the response is not ok;
\* the catch of the caller writes the message
DebounceLoadFailed ==
    /\ pc = "fetching"
    /\ pc' = "done"
    /\ status' \in {StatusTypeError, StatusHttpError}
    /\ UNCHANGED <<csvText, browserTZ, INCIDENTS, FILTERED, rowCount, results,
                   ctl, opts, hooked, notApp>>

\* lines 902-926: the text arrives; the records are parsed, the row count
\* and the dropdowns are set, the listeners are attached and render() runs
DebounceLoaded ==
    /\ pc = "fetching"
    /\ pc' = "done"
    /\ \E records \in {parseCSV_622(csvText)} :
          /\ INCIDENTS' = records
          /\ rowCount' = <<Len(records)>>
          /\ opts' = [opts EXCEPT
                !.state = fillSelect(uniqSorted(
                    [k \in 1..Len(records) |-> Field(records[k], K.state)])),
                !.event = fillSelect(uniqSorted(
                    [k \in 1..Len(records) |->
                        Field(records[k], K.event_type)])),
                !.phase = fillSelect(uniqSorted(
                    [k \in 1..Len(records) |-> Field(records[k], K.phase)]))]
          /\ ctl' = [ctl EXCEPT !.state = <<>>, !.event = <<>>,
                                !.phase = <<>>]
          /\ results' = render(records, ctl', browserTZ)
    /\ status' = ""
    /\ hooked' = TRUE
    /\ UNCHANGED <<csvText, browserTZ, FILTERED, notApp>>

\* setTimeout never hands out the handle of a timer that is still to run
MaxTimers == 2
FreshHandle(live) == CHOOSE h \in 1..MaxTimers : h \notin live

\* lines 914-917: rerender() clears the timer that t names and starts
\* another; t is the variable timer here
RerenderMutant ==
    \E h \in {FreshHandle(DOMAIN pending)} :
        /\ pending' = (h :> Delay) @@ pending
        /\ timer' = h
Rerender ==
    \E live \in {DOMAIN pending \ {timer}} :
       \E h \in {FreshHandle(live)} :
          /\ pending' = (h :> Delay) @@ [x \in live |-> pending[x]]
          /\ timer' = h

\* line 919: the "input" listener of the search box
DebounceOnInput ==
    /\ hooked
    /\ Cardinality(DOMAIN pending) < MaxTimers
    /\ \E q \in Queries \ {ctl.search} : ctl' = [ctl EXCEPT !.search = q]
    /\ Rerender
    /\ renders' = 0
    /\ UNCHANGED <<pc, csvText, browserTZ, INCIDENTS, FILTERED, status,
                   rowCount, results, opts, hooked, csvVars, rec, inc, apc,
                   dateVars, exported>>

\* lines 920-923: the "change" listener of a dropdown
DebounceOnChange ==
    /\ hooked
    /\ Cardinality(DOMAIN pending) < MaxTimers
    /\ \E el \in {"state", "event", "phase", "sort"} :
          \E v \in Range(opts[el]) \ {ctl[el]} :
             ctl' = [ctl EXCEPT ![el] = v]
    /\ Rerender
    /\ renders' = 0
    /\ UNCHANGED <<pc, csvText, browserTZ, INCIDENTS, FILTERED, status,
                   rowCount, results, opts, hooked, csvVars, rec, inc, apc,
                   dateVars, exported>>

\* time passes while no timer is due, at most TickMs milliseconds a step
TickMs == 40
Tick ==
    /\ pending # <<>>
    /\ \A h \in DOMAIN pending : pending[h] > 0
    /\ pending' = [h \in DOMAIN pending |->
                      IF pending[h] > TickMs THEN pending[h] - TickMs ELSE 0]
    /\ UNCHANGED <<appVars, csvVars, asmVars, dateVars, exported, timer,
                   renders>>

\* line 916: a timer is due and its callback runs render(records), which
\* reads the controls as they are now
TimerFires ==
    /\ \E h \in DOMAIN pending :
          /\ pending[h] = 0
          /\ pending' = [x \in DOMAIN pending \ {h} |-> pending[x]]
    /\ \E recs \in {render(INCIDENTS, ctl, browserTZ)} : results' = recs
    /\ renders' = IF renders < 2 THEN renders + 1 ELSE renders
    /\ UNCHANGED <<pc, csvText, browserTZ, INCIDENTS, FILTERED, status,
                   rowCount, ctl, opts, hooked, csvVars, rec, inc, apc,
                   dateVars, exported, timer>>

DebounceEvent == DebounceOnInput \/ DebounceOnChange

\* a timer is due: TimerFires is enabled in exactly these states
TimerDue == \E h \in DOMAIN pending : pending[h] = 0

\* the event loop runs a timer that stays due: weak fairness of TimerFires,
\* its enabling condition written out
TimerFairness == []<>~TimerDue \/ []<><<TimerFires>>_vars

DebounceNext ==
    \/ DebounceLoadFailed
    \/ DebounceLoaded
    \/ DebounceOnInput
    \/ DebounceOnChange
    \/ Tick
    \/ TimerFires

\* an event has started a timer and render() has not run since
AwaitingRender == pending # <<>>

\* at most one timer is to run; render() runs at most once between two
\* events; and when no timer is left the results are what render() gives
\* for the controls as they are
OneTimerOneRender ==
    /\ Cardinality(DOMAIN pending) <= 1
    /\ renders <= 1
    /\ (hooked /\ pending = <<>>) =>
          results = render(INCIDENTS, ctl, browserTZ)

\* every event starts a timer of 80 ms and leaves no other, and the render
\* of a timer reads the controls at the time it runs
EventRestartsTimer ==
    /\ ctl' # ctl /\ hooked => pending' = (timer' :> Delay)
    /\ (pending # <<>> /\ pending' = <<>>) =>
          results' = render(INCIDENTS, ctl, browserTZ)

\* C29 as stated: at most one render timer is pending, every event cancels
\* it and starts a new timer of 80 ms, a burst of events is followed by one
\* render that reads the controls as they are when it runs, and every event
\* is eventually followed by a render
C29_AlwaysRendered ==
    /\ []OneTimerOneRender
    /\ [][EventRestartsTimer]_vars
    /\ (AwaitingRender ~> ~AwaitingRender)

\* C29 amended: the same, with the render following every event unless
\* further events keep arriving before the timer of the last one runs
C29_RenderedAfterBurst ==
    /\ []OneTimerOneRender
    /\ [][EventRestartsTimer]_vars
    /\ \/ AwaitingRender ~> ~AwaitingRender
       \/ []<><<DebounceEvent>>_vars

\* events on the search box and on the state filter have been followed by
\* one render, which left out a record, and no timer is left
C29_Witness ==
    /\ hooked
    /\ renders = 1
    /\ pending = <<>>
    /\ timer # 0
    /\ ctl.search # <<>>
    /\ ctl.state # <<>>
    /\ Len(results) < Len(INCIDENTS)

(***************************************************************************)
(* Files with a phase column, for the dropdowns filled at lines 524-528    *)
(***************************************************************************)
PhaseHeader ==
    <<"s", "t", "a", "t", "e", COMMA, "e", "v", "e", "n", "t", "_", "t", "y",
      "p", "e", COMMA, "p", "h", "a", "s", "e">>
\* a landing incident in Alaska
LineLanding ==
    <<"A", "K", COMMA, "I", "n", "c", "i", "d", "e", "n", "t", COMMA, "L",
      "a", "n", "d", "i", "n", "g">>
\* an Alaska accident with no phase
LineNoPhase ==
    <<"A", "K", COMMA, "A", "c", "c", "i", "d", "e", "n", "t", COMMA>>
\* a taxi incident in Hawaii
LineTaxi ==
    <<"H", "I", COMMA, "I", "n", "c", "i", "d", "e", "n", "t", COMMA, "T",
      "a", "x", "i">>

PhaseFiles ==
    {<<>>} \cup
    {Join(<<PhaseHeader>> \o ls, <<LF>>) :
        ls \in SeqsUpTo({LineLanding, LineNoPhase, LineTaxi}, MaxRows)}

OptionsInit == PageStart(PhaseFiles)

(***************************************************************************)
(* Claims about the dropdowns                                              *)
(***************************************************************************)
\* the attribute of an incident that a dropdown filters on
AttrOf(el, it) ==
    IF el = "state" THEN it._state
    ELSE IF el = "event" THEN it._eventType
    ELSE it._phase

\* the options of the dropdown after "All" are the non-empty values its
\* attribute takes in INCIDENTS, each once
OptionsFromData(el) ==
    Eval(Tail(opts[el]), LAMBDA offered :
        /\ opts[el][1] = <<>>
        /\ Range(offered)
              = {AttrOf(el, INCIDENTS[k]) : k \in 1..Len(INCIDENTS)} \ {<<>>}
        /\ \A m, n \in 1..Len(offered) : offered[m] = offered[n] => m = n)

\* one option of the dropdown is selected and every other filter is clear
OnlySelected(el) ==
    /\ ctl[el] # <<>>
    /\ ctl.search = <<>> /\ ctl.year = <<>> /\ ctl.month = <<>>
    /\ \A other \in {"state", "event", "phase"} \ {el} : ctl[other] = <<>>

\* C30: after load every option of the state, event type and phase
\* dropdowns other than "All" is the value of that attribute in some
\* incident, each such value is offered once, and an option selected alone
\* leaves FILTERED non-empty
C30_OptionsFromData ==
    hooked =>
        \A el \in {"state", "event", "phase"} :
            /\ OptionsFromData(el)
            /\ OnlySelected(el) => FILTERED # <<>>

\* a phase is selected alone out of two offered, and FILTERED holds the one
\* incident of two that has it
C30_Witness ==
    /\ hooked
    /\ OnlySelected("phase")
    /\ Len(INCIDENTS) = 2
    /\ Len(FILTERED) = 1
    /\ Len(opts.phase) = 3
    /\ Len(opts.state) = 3

(***************************************************************************)
(* Claims about the two lists of the page                                  *)
(***************************************************************************)
\* C22: once the file is loaded, no search, filter or sort event changes
\* INCIDENTS: it keeps the same incidents, in the same order, with the same
\* attributes; the events only replace FILTERED
C22_IncidentsKept == [][hooked => INCIDENTS' = INCIDENTS]_vars

\* a search and a sort have acted: FILTERED is one incident of two, and
\* elsewhere the two in the other order, and INCIDENTS is still the list
\* that init built from the file
C22_Witness ==
    /\ hooked
    /\ Len(INCIDENTS) = 2
    /\ INCIDENTS[1] # INCIDENTS[2]
    /\ ctl.sort = Oldest
    /\ FILTERED = <<INCIDENTS[2], INCIDENTS[1]>>
    /\ INCIDENTS = IncidentsOf(KeptRows(csvText), browserTZ)

\* the sort keys of FILTERED, in its order
FilteredKeys == [k \in 1..Len(FILTERED) |-> toDate(FILTERED[k], browserTZ)]

C24_LoadReportedOk ==
    (pc = "done" /\ INCIDENTS # <<>>) =>
        /\ status = StatusLoaded
        /\ Len(results) = Len(FILTERED)

\* INCIDENTS holds one incident for each data row the tokenizer kept, in
\* the order of the file
CompleteList ==
    Eval(KeptRows(csvText), LAMBDA rs :
        /\ rs # <<>>
        /\ Len(INCIDENTS) = Len(rs) - 1
        /\ Eval([k \in 1..Len(rs[1]) |-> norm(rs[1][k])], LAMBDA headers :
              \A k \in 1..Len(INCIDENTS) :
                 INCIDENTS[k]
                    = toIncident(RowObject(headers, rs[k + 1]), browserTZ)))

\* C26: the incident list is published in one step: wherever a listener can
\* run INCIDENTS is the complete list, one incident per data row in file
\* order, and before that it is empty; no state shows a part of the list
C26_PublishedWhole ==
    /\ ~hooked => INCIDENTS = <<>>
    /\ INCIDENTS = <<>> \/ CompleteList

\* a listener has run on a list of two incidents
C26_Witness ==
    /\ hooked
    /\ ctl.search # <<>>
    /\ Len(INCIDENTS) = 2
    /\ INCIDENTS[1] # INCIDENTS[2]

(***************************************************************************)
(* Claims about the assembled state and tail                               *)
(***************************************************************************)
\* C27: the state of an incident is the trimmed state value of its record
\* in upper case, so that "ak" and "AK" give the same _state
C27_StateUpperCased ==
    apc = "assembled" =>
        inc._state = toUpperCase(getAny(rec, <<K.state, K.State>>))

\* a letter or a digit / a character \\b counts as part of a word
IsAlnum(c) ==
    IndexIn(Digits, c) > 0 \/ IndexIn(LowerLetters, c) > 0
       \/ IndexIn(UpperLetters, c) > 0
IsWordChar(c) == IsAlnum(c) \/ c = "_"

\* how many letters and digits follow one another in s from position k
RECURSIVE AlnumRun(_, _)
AlnumRun(s, k) ==
    IF k > Len(s) \/ ~IsAlnum(s[k]) THEN 0 ELSE 1 + AlnumRun(s, k + 1)

\* a tail token starts at position k of s: an N at a word boundary, a digit
\* 1-9, up to four letters or digits, and a word boundary
TailTokenAt(s, k) ==
    /\ s[k] = "N"
    /\ k = 1 \/ ~IsWordChar(s[k - 1])
    /\ k < Len(s) /\ IndexIn(Digits, s[k + 1]) > 1
    /\ AlnumRun(s, k + 2) <= 4
    /\ Eval(k + 2 + AlnumRun(s, k + 2),
            LAMBDA after : after > Len(s) \/ s[after] # "_")

TailTokenStarts(s) == {k \in 1..Len(s) : TailTokenAt(s, k)}

FirstTailToken(s) ==
    Eval(CHOOSE k \in TailTokenStarts(s) : \A n \in TailTokenStarts(s) : k <= n,
         LAMBDA k : SubSeq(s, k, k + 1 + AlnumRun(s, k + 2)))

\* C28: when no tail column of the record has a value, the tail of the
\* incident is the first tail token of its narrative, and the placeholder
\* "Unknown aircraft" only when the narrative has none
C28_TailFromNarrative ==
    (/\ apc = "assembled"
     /\ getAny(rec, <<K.aircraft_primary, K.tail_number, K.tail, K.n_number>>)
           = <<>>) =>
        inc._tail = IF TailTokenStarts(inc._narrative) # {}
                    THEN FirstTailToken(inc._narrative)
                    ELSE UnknownAircraft

(***************************************************************************)
(* Specifications.  Each one runs one part of the program; the variables   *)
(* of the other parts stay at their idle values.                           *)
(***************************************************************************)
CsvIdle ==
    /\ text = <<>> /\ src = <<>> /\ kind = "none" /\ i = 0 /\ cur = <<>>
    /\ row = <<>> /\ rows = <<>> /\ inQuotes = FALSE /\ ppc = "idle"

AsmIdle == rec = <<>> /\ browserTZ = ZoneUTC /\ inc = NoIncident /\ apc = "idle"

DateIdle == score = NotDone /\ evDate = NotDone

OutIdle ==
    exported = NoExport /\ timer = 0 /\ pending = <<>> /\ renders = 0

AppIdle ==
    /\ pc = "idle" /\ csvText = <<>> /\ INCIDENTS = <<>> /\ FILTERED = <<>>
    /\ status = StatusInitial /\ rowCount = <<>> /\ results = <<>>
    /\ ctl = <<>> /\ opts = <<>> /\ hooked = FALSE

\* the page: one load of one file, then any filter, search and sort events
Init ==
    /\ AppInit /\ CsvIdle /\ DateIdle /\ OutIdle
    /\ rec = <<>> /\ inc = NoIncident /\ apc = "idle"
Spec == Init /\ [][Next]_vars

\* the tokenizer on bounded texts
InitCsv == CsvInit /\ AsmIdle /\ DateIdle /\ AppIdle /\ OutIdle
SpecCsv == InitCsv /\ [][CsvNext]_vars

\* the assembler on one raw record
InitAsm == AsmInit /\ CsvIdle /\ DateIdle /\ AppIdle /\ OutIdle
SpecAsm == InitAsm /\ [][AsmNext]_vars

\* the date helpers on one raw record
InitDate ==
    /\ DateInit /\ inc = NoIncident /\ apc = "idle" /\ CsvIdle /\ AppIdle
    /\ OutIdle
SpecDate == InitDate /\ [][DateNext]_vars

\* the tokenizer runs to its return: the loop is straight-line code that
\* nothing suspends
SpecCsvFair == InitCsv /\ [][CsvNext]_vars /\ WF_vars(CsvNext)

\* the three tokenizers on bounded texts
InitTok == TokInit /\ AsmIdle /\ DateIdle /\ AppIdle /\ OutIdle
SpecTok == InitTok /\ [][TokNext]_vars

\* the page loaded with a file of edge cases
InitEdge ==
    /\ EdgeInit /\ CsvIdle /\ DateIdle /\ OutIdle
    /\ rec = <<>> /\ inc = NoIncident /\ apc = "idle"
SpecEdge == InitEdge /\ [][Next]_vars

\* the variant whose listeners are wired before the load
InitWired ==
    /\ WiredInit /\ CsvIdle /\ DateIdle /\ OutIdle
    /\ rec = <<>> /\ inc = NoIncident /\ apc = "idle"
SpecWired == InitWired /\ [][WiredNext]_vars

\* the variant with the render timer; the event loop lets time pass and
\* runs a timer that is due
InitDebounce ==
    /\ DebounceInit /\ CsvIdle /\ DateIdle
    /\ rec = <<>> /\ inc = NoIncident /\ apc = "idle"
SpecDebounce ==
    InitDebounce /\ [][DebounceNext]_vars /\ WF_vars(Tick) /\ TimerFairness

\* the page and its download button
InitExport ==
    /\ ExportInit /\ CsvIdle /\ DateIdle /\ OutIdle
    /\ rec = <<>> /\ inc = NoIncident /\ apc = "idle"
SpecExport == InitExport /\ [][ExportNext]_vars

InitOptions ==
    /\ OptionsInit /\ CsvIdle /\ DateIdle /\ OutIdle
    /\ rec = <<>> /\ inc = NoIncident /\ apc = "idle"
SpecOptions == InitOptions /\ [][Next]_vars

====
